---- MODULE Spec2Model ----
(***************************************************************************)
(* A model of src/bot.py: the callback-token grammar, the per-session      *)
(* stores, the navigation handlers and the single / batch download         *)
(* pipelines.                                                              *)
(*                                                                         *)
(* Python strings are sequences of one-character strings, so that          *)
(* str.startswith, str.split, str.join, int() and str() are computed the   *)
(* way Python computes them.  Handlers are written as functions from a     *)
(* handler state (the stores plus the effects emitted so far and the       *)
(* pending exception) to a handler state; an action applies one handler.   *)
(***************************************************************************)
EXTENDS Integers, Sequences, FiniteSets, TLC

(***************************************************************************)
(* Python string primitives                                                *)
(***************************************************************************)
Digits == <<"0", "1", "2", "3", "4", "5", "6", "7", "8", "9">>

IsDigit(c) == \E i \in 1..10 : Digits[i] = c

DigitVal(c) == (CHOOSE i \in 1..10 : Digits[i] = c) - 1

\* str.startswith
startswith(s, p) == Len(s) >= Len(p) /\ SubSeq(s, 1, Len(p)) = p

\* position of the first sep in s, 0 when there is none (str.find + 1)
find(s, sep) ==
    IF \E i \in 1..Len(s) : s[i] = sep
    THEN CHOOSE i \in 1..Len(s) : s[i] = sep /\ \A j \in 1..(i - 1) : s[j] # sep
    ELSE 0

\* str.split(sep): every field, empty ones included
RECURSIVE split(_, _)
split(s, sep) ==
    LET i == find(s, sep) IN
    IF i = 0 THEN <<s>>
    ELSE <<SubSeq(s, 1, i - 1)>> \o split(SubSeq(s, i + 1, Len(s)), sep)

\* str.split(sep, 1)
split1(s, sep) ==
    LET i == find(s, sep) IN
    IF i = 0 THEN <<s>>
    ELSE <<SubSeq(s, 1, i - 1), SubSeq(s, i + 1, Len(s))>>

\* sep.join(parts)
RECURSIVE join(_, _)
join(parts, sep) ==
    IF Len(parts) = 0 THEN <<>>
    ELSE IF Len(parts) = 1 THEN parts[1]
    ELSE parts[1] \o <<sep>> \o join(Tail(parts), sep)

\* str(n) for an int n
RECURSIVE NatStr(_)
NatStr(n) == IF n < 10 THEN <<Digits[n + 1]>> ELSE NatStr(n \div 10) \o <<Digits[(n % 10) + 1]>>

str(n) == IF n < 0 THEN <<"-">> \o NatStr(0 - n) ELSE NatStr(n)

\* int(s): an optional sign followed by one or more digits; anything else
\* raises ValueError
RECURSIVE DigitsVal(_)
DigitsVal(s) ==
    IF Len(s) = 0 THEN 0
    ELSE 10 * DigitsVal(SubSeq(s, 1, Len(s) - 1)) + DigitVal(s[Len(s)])

AllDigits(s) == Len(s) > 0 /\ \A i \in 1..Len(s) : IsDigit(s[i])

int_ok(s) ==
    \/ AllDigits(s)
    \/ Len(s) > 1 /\ s[1] \in {"-", "+"} /\ AllDigits(Tail(s))

int(s) ==
    IF s[1] = "-" THEN 0 - DigitsVal(Tail(s))
    ELSE IF s[1] = "+" THEN DigitsVal(Tail(s))
    ELSE DigitsVal(s)

\* f"{a}_{b}"
U(a, b) == a \o <<"_">> \o b

(***************************************************************************)
(* Program literals and configuration                                      *)
(***************************************************************************)
\* the string literals of bot.py that are compared with, or concatenated
\* into, callback data
\* the callback data of the fixed menus
Menu ==
    [ main_menu |-> <<"m", "a", "i", "n", "_", "m", "e", "n", "u">>,
      help |-> <<"h", "e", "l", "p">>,
      settings |-> <<"s", "e", "t", "t", "i", "n", "g", "s">>,
      my_stats |-> <<"m", "y", "_", "s", "t", "a", "t", "s">>,
      history |-> <<"h", "i", "s", "t", "o", "r", "y">>,
      clear_history |-> <<"c", "l", "e", "a", "r", "_", "h", "i", "s", "t", "o", "r", "y">>,
      search_songs |-> <<"s", "e", "a", "r", "c", "h", "_", "s", "o", "n", "g", "s">>,
      search_albums |-> <<"s", "e", "a", "r", "c", "h", "_", "a", "l", "b", "u", "m", "s">>,
      search_playlists |-> <<"s", "e", "a", "r", "c", "h", "_", "p", "l", "a", "y", "l", "i", "s", "t", "s">>,
      search_artists |-> <<"s", "e", "a", "r", "c", "h", "_", "a", "r", "t", "i", "s", "t", "s">>,
      admin_panel |-> <<"a", "d", "m", "i", "n", "_", "p", "a", "n", "e", "l">>,
      admin_broadcast |-> <<"a", "d", "m", "i", "n", "_", "b", "r", "o", "a", "d", "c", "a", "s", "t">>,
      admin_stats |-> <<"a", "d", "m", "i", "n", "_", "s", "t", "a", "t", "s">>,
      back_search |-> <<"b", "a", "c", "k", "_", "s", "e", "a", "r", "c", "h">>,
      noop |-> <<"n", "o", "o", "p">>,
      broadcast_confirm |-> <<"b", "r", "o", "a", "d", "c", "a", "s", "t", "_", "c", "o", "n", "f", "i", "r", "m">> ]

\* the result kinds
Kind ==
    [ song |-> <<"s", "o", "n", "g">>,
      album |-> <<"a", "l", "b", "u", "m">>,
      playlist |-> <<"p", "l", "a", "y", "l", "i", "s", "t">>,
      artist |-> <<"a", "r", "t", "i", "s", "t">> ]

\* the quality tiers
Tier ==
    [ high |-> <<"h", "i", "g", "h">>,
      medium |-> <<"m", "e", "d", "i", "u", "m">>,
      low |-> <<"l", "o", "w">> ]

\* the prefix tags of the parameterised tokens
Tag ==
    [ quality |-> <<"q", "u", "a", "l", "i", "t", "y">>,
      list |-> <<"l", "i", "s", "t">>,
      dl |-> <<"d", "l">>,
      dlall |-> <<"d", "l", "a", "l", "l">>,
      sim |-> <<"s", "i", "m">>,
      artist_songs |-> <<"a", "r", "t", "i", "s", "t", "_", "s", "o", "n", "g", "s">>,
      artist_albums |-> <<"a", "r", "t", "i", "s", "t", "_", "a", "l", "b", "u", "m", "s">>,
      albumdetail |-> <<"a", "l", "b", "u", "m", "d", "e", "t", "a", "i", "l">>,
      playlistdetail |-> <<"p", "l", "a", "y", "l", "i", "s", "t", "d", "e", "t", "a", "i", "l">>,
      detail |-> <<"d", "e", "t", "a", "i", "l">> ]

\* other literals
Word ==
    [ broadcast |-> <<"b", "r", "o", "a", "d", "c", "a", "s", "t">>,
      download |-> <<"d", "o", "w", "n", "l", "o", "a", "d">>,
      search |-> <<"s", "e", "a", "r", "c", "h">>,
      Unknown |-> <<"U", "n", "k", "n", "o", "w", "n">> ]

\* f"{x}_"
P(x) == x \o <<"_">>

\* the sessions of the model, and the allow-list read from the environment
Users == {1, 2}

ADMIN_IDS == {1}

\* QUALITY_OPTIONS[q]["index"]; a q outside its DOMAIN raises KeyError
QUALITY_OPTIONS == (Tier.high :> 4) @@ (Tier.medium :> 3) @@ (Tier.low :> 2)

\* the page size of every list
PageSize == 10

\* the capacity of the history ring
HistoryCap == 50

(***************************************************************************)
(* Python lists and dicts                                                  *)
(***************************************************************************)
\* a dict is a function whose DOMAIN is its key set
EmptyDict == <<>>

Has(d, k) == k \in DOMAIN d

Put(d, k, v) == [x \in (DOMAIN d) \cup {k} |-> IF x = k THEN v ELSE d[x]]

\* list[i] is defined for -len <= i < len, IndexError otherwise
index_ok(l, i) == (0 - Len(l)) <= i /\ i < Len(l)

at(l, i) == IF i >= 0 THEN l[i + 1] ELSE l[Len(l) + i + 1]

\* list[a:b]
slice(l, a, b) ==
    LET n  == Len(l)
        lo == IF a < 0 THEN (IF a + n < 0 THEN 0 ELSE a + n) ELSE (IF a > n THEN n ELSE a)
        hi == IF b < 0 THEN (IF b + n < 0 THEN 0 ELSE b + n) ELSE (IF b > n THEN n ELSE b)
    IN  IF lo >= hi THEN <<>> ELSE SubSeq(l, lo + 1, hi)

\* list[-k:]
last_k(l, k) == slice(l, 0 - k, Len(l))

(***************************************************************************)
(* Keyboard builders: the encoders of the callback-data grammar            *)
(***************************************************************************)
create_song_keyboard(song_id) ==
    <<U(Tag.dl, song_id), U(Tag.sim, song_id), Menu.back_search>>

KnownTypes == {Kind.song, Kind.album, Kind.playlist, Kind.artist}

list_token(item_type, page, query) == U(U(U(Tag.list, item_type), str(page)), query)

\* create_list_keyboard with a Next button on every page of a multi-page list
create_list_keyboard_next_always(items, item_type, page, total_items, query) ==
    LET item_buttons ==
            IF item_type \in KnownTypes
            THEN [i \in 1..Len(items) |-> U(item_type, items[i])]
            ELSE <<>>
        total_pages == (total_items + PageSize - 1) \div PageSize
        nav ==
            IF total_pages > 1
            THEN (IF page > 0 THEN <<list_token(item_type, page - 1, query)>> ELSE <<>>)
                 \o <<Menu.noop>>
                 \o <<list_token(item_type, page + 1, query)>>
            ELSE <<>>
    IN  item_buttons \o nav \o <<Menu.main_menu>>

create_list_keyboard(items, item_type, page, total_items, query) ==
    LET item_buttons ==
            IF item_type \in KnownTypes
            THEN [i \in 1..Len(items) |-> U(item_type, items[i])]
            ELSE <<>>
        limit       == PageSize
        total_pages == (total_items + limit - 1) \div limit
        nav ==
            IF total_pages > 1
            THEN (IF page > 0 THEN <<list_token(item_type, page - 1, query)>> ELSE <<>>)
                 \o <<Menu.noop>>
                 \o (IF page < total_pages - 1
                     THEN <<list_token(item_type, page + 1, query)>> ELSE <<>>)
            ELSE <<>>
    IN  item_buttons \o nav \o <<Menu.main_menu>>

detail_token(item_type, item_id, page) == U(U(item_type \o Tag.detail, item_id), str(page))

\* create_album_playlist_keyboard with the page count rounded down
create_album_playlist_keyboard_floor(item_id, item_type, page, total_songs) ==
    LET total_pages == total_songs \div PageSize
        nav ==
            IF total_songs > PageSize
            THEN (IF page > 0 THEN <<detail_token(item_type, item_id, page - 1)>> ELSE <<>>)
                 \o <<Menu.noop>>
                 \o (IF page < total_pages - 1
                     THEN <<detail_token(item_type, item_id, page + 1)>> ELSE <<>>)
            ELSE <<>>
    IN  <<U(U(Tag.dlall, item_type), item_id)>> \o nav \o <<Menu.back_search>>

create_album_playlist_keyboard(item_id, item_type, page, total_songs) ==
    LET limit       == PageSize
        total_pages == (total_songs + limit - 1) \div limit
        nav ==
            IF total_songs > PageSize
            THEN (IF page > 0 THEN <<detail_token(item_type, item_id, page - 1)>> ELSE <<>>)
                 \o <<Menu.noop>>
                 \o (IF page < total_pages - 1
                     THEN <<detail_token(item_type, item_id, page + 1)>> ELSE <<>>)
            ELSE <<>>
    IN  <<U(U(Tag.dlall, item_type), item_id)>> \o nav \o <<Menu.back_search>>

\* create_artist_keyboard without its Back button
create_artist_keyboard_no_back(artist_id) ==
    << U(U(Tag.artist_songs, artist_id), str(0)),
       U(U(Tag.artist_albums, artist_id), str(0)) >>

create_artist_keyboard(artist_id) ==
    << U(U(Tag.artist_songs, artist_id), str(0)),
       U(U(Tag.artist_albums, artist_id), str(0)),
       Menu.back_search >>

\* the fixed menus of start_command, settings_command and history_command
main_menu_keyboard(user_id) ==
    << Menu.search_songs, Menu.search_albums, Menu.search_playlists, Menu.search_artists,
       Menu.settings, Menu.history, Menu.my_stats, Menu.help >>
    \o (IF user_id \in ADMIN_IDS THEN <<Menu.admin_panel>> ELSE <<>>)

settings_keyboard ==
    <<U(Tag.quality, Tier.high), U(Tag.quality, Tier.medium), U(Tag.quality, Tier.low), Menu.main_menu>>

(***************************************************************************)
(* State                                                                   *)
(***************************************************************************)
VARIABLES
    user_data_store,   \* the dict user_data_store: user_id -> {quality, history, downloads, searches}
    user_stats,        \* the dict user_stats: user_id -> {downloads, searches, last_active}
    user_ctx,          \* context.user_data of every session: a dict of last_search, search_mode, admin_mode
    batch,             \* the frame of the running download_all_songs coroutine
    out,               \* the effects the last step sent to the chat
    reqs,              \* the catalog and binary requests the last step issued
    turn,              \* the last step: whose turn, what kind, its payload, the branch taken
    clock              \* the number of updates delivered so far (what bounds a run)

vars == <<user_data_store, user_stats, user_ctx, batch, out, reqs, turn, clock>>

\* A handler state: the stores, what the handler has emitted so far, the
\* exception that is propagating ("none" when there is none), the branch of
\* callback_query_handler that was taken and the fields it decoded.
NoDispatch == [branch |-> "none", kind |-> <<>>, id |-> <<>>, page |-> 0, query |-> <<>>]

\* the frame of download_all_songs: where it is, whose run it is, the child
\* list, the number of items the loop has gone through, the preference index,
\* every item's outcome and the count the final summary reported
IdleBatch ==
    [phase |-> "idle", user |-> 0, songs |-> <<>>, idx |-> 0, quality_index |-> 0,
     outcomes |-> <<>>, reported |-> 0]

Enter ==
    [uds |-> user_data_store, stats |-> user_stats, ctx |-> user_ctx,
     batch |-> IdleBatch, out |-> <<>>, reqs |-> <<>>, exc |-> "none", caught |-> <<>>,
     disp |-> NoDispatch, order |-> <<>>]

Raise(h, e) == [h EXCEPT !.exc = e]

\* an except clause: the exception stops propagating (and is logged)
Caught(h) == [h EXCEPT !.exc = "none", !.caught = Append(@, h.exc)]

\* an effect on the chat of the turn: the call, the text it shows (by name), the
\* result kind and the numbers the text holds, and the callback data of its buttons
EffK(op, view, kind, data, kb) ==
    [op |-> op, view |-> view, kind |-> kind, data |-> data, kb |-> kb]

Eff(op, view, data, kb) == EffK(op, view, <<>>, data, kb)

\* order is the program order of the turn's calls: "effect" for a chat
\* call, "request" for an HTTP request
Emit(h, e) == [h EXCEPT !.out = Append(@, e), !.order = Append(@, "effect")]

\* a request: the endpoint, the result kind, the id, query or url, and the page
Req(api, kind, id, page) == [api |-> api, kind |-> kind, id |-> id, page |-> page]

Request(h, r) == [h EXCEPT !.reqs = Append(@, r), !.order = Append(@, "request")]

\* update.message.reply_text for a text turn, callback_query.message.edit_text
\* for a token turn
Show(via) == IF via = "message" THEN "reply" ELSE "edit"

(***************************************************************************)
(* Session store                                                           *)
(***************************************************************************)
get_user_data(h, user_id) ==
    IF Has(h.uds, user_id) THEN h
    ELSE [h EXCEPT !.uds = Put(@, user_id,
              [quality |-> Tier.medium, history |-> <<>>, downloads |-> 0, searches |-> 0])]

\* the counters with their keys swapped
update_user_stats_keys_swapped(h, user_id, action) ==
    LET s0 == IF Has(h.stats, user_id) THEN h.stats[user_id]
              ELSE [downloads |-> 0, searches |-> 0, last_active |-> "None"]
        s1 == IF action = Word.download THEN [s0 EXCEPT !.searches = @ + 1]
              ELSE IF action = Word.search THEN [s0 EXCEPT !.downloads = @ + 1]
              ELSE s0
    IN  [h EXCEPT !.stats = Put(@, user_id, [s1 EXCEPT !.last_active = "now"])]

\* update_user_stats that counts every action as a download
update_user_stats_any_action(h, user_id, action) ==
    LET s0 == IF Has(h.stats, user_id) THEN h.stats[user_id]
              ELSE [downloads |-> 0, searches |-> 0, last_active |-> "None"]
        s1 == IF action = Word.search
              THEN [s0 EXCEPT !.downloads = @ + 1, !.searches = @ + 1]
              ELSE [s0 EXCEPT !.downloads = @ + 1]
    IN  [h EXCEPT !.stats = Put(@, user_id, [s1 EXCEPT !.last_active = "now"])]

update_user_stats(h, user_id, action) ==
    LET s0 == IF Has(h.stats, user_id) THEN h.stats[user_id]
              ELSE [downloads |-> 0, searches |-> 0, last_active |-> "None"]
        s1 == IF action = Word.download THEN [s0 EXCEPT !.downloads = @ + 1]
              ELSE IF action = Word.search THEN [s0 EXCEPT !.searches = @ + 1]
              ELSE s0
    IN  [h EXCEPT !.stats = Put(@, user_id, [s1 EXCEPT !.last_active = "now"])]

RECURSIVE SumOver(_, _, _)
SumOver(d, keys, field) ==
    IF keys = {} THEN 0
    ELSE LET k == CHOOSE x \in keys : TRUE
         IN  (IF field = "downloads" THEN d[k].downloads ELSE d[k].searches)
             + SumOver(d, keys \ {k}, field)

\* len(user_stats), sum of downloads, sum of searches
global_totals(h) ==
    << Cardinality(DOMAIN h.stats),
       SumOver(h.stats, DOMAIN h.stats, "downloads"),
       SumOver(h.stats, DOMAIN h.stats, "searches") >>

(***************************************************************************)
(* Command handlers                                                        *)
(***************************************************************************)
start_command(h, user_id, via) ==
    Emit(get_user_data(h, user_id), Eff(Show(via), "MainMenu", <<>>, main_menu_keyboard(user_id)))

help_command(h, user_id, via) ==
    Emit(h, Eff(Show(via), "Help", <<>>, <<Menu.main_menu>>))

settings_command(h, user_id, via) ==
    LET h1 == get_user_data(h, user_id)
        current_quality == h1.uds[user_id].quality
    IN  IF current_quality \notin DOMAIN QUALITY_OPTIONS THEN Raise(h1, "KeyError")
        ELSE Emit(h1, Eff(Show(via), "Settings", <<QUALITY_OPTIONS[current_quality]>>,
                          settings_keyboard))

stats_command(h, user_id, via) ==
    LET h1 == get_user_data(h, user_id)
        stats == IF Has(h1.stats, user_id) THEN h1.stats[user_id]
                 ELSE [downloads |-> 0, searches |-> 0]
        user_data == h1.uds[user_id]
    IN  IF user_data.quality \notin DOMAIN QUALITY_OPTIONS THEN Raise(h1, "KeyError")
        ELSE Emit(h1, Eff(Show(via), "Stats",
                          <<stats.downloads, stats.searches, Len(user_data.history)>>,
                          <<Menu.main_menu>>))

history_command(h, user_id, via) ==
    LET h1 == get_user_data(h, user_id)
        history == h1.uds[user_id].history
    IN  IF Len(history) = 0
        THEN Emit(h1, Eff(Show(via), "HistoryEmpty", <<>>, <<Menu.search_songs>>))
        ELSE Emit(h1, Eff(Show(via), "History", <<Len(last_k(history, 10))>>,
                          <<Menu.clear_history, Menu.main_menu>>))

admin_panel(h, user_id) ==
    IF user_id \notin ADMIN_IDS
    THEN Emit(h, Eff("alert", "Unauthorized", <<>>, <<>>))
    ELSE Emit(h, Eff("edit", "AdminPanel", global_totals(h),
                     <<Menu.admin_broadcast, Menu.admin_stats, Menu.main_menu>>))

(***************************************************************************)
(* Search and detail views                                                 *)
(***************************************************************************)
\* search_and_display that stores the search context only with a rendered list
search_and_display_context_on_success(h, user_id, via, query, search_type, page, e) ==
    LET h1 == update_user_stats(h, user_id, Word.search)
        h3 == IF via = "message" THEN Emit(h1, Eff("reply", "Loading", <<>>, <<>>)) ELSE h1
    IN  IF search_type \notin KnownTypes THEN h3
        ELSE
        LET h4 == Request(h3, Req("search", search_type, query, page))
            h5 == IF via = "message" THEN Emit(h4, Eff("delete", "Loading", <<>>, <<>>)) ELSE h4
        IN  IF ~e.ok
            THEN Emit(h5, EffK(Show(via), "NotFound", search_type, <<>>, <<Menu.main_menu>>))
            ELSE IF Len(e.results) = 0
            THEN Emit(h5, EffK(Show(via), "NoResults", search_type, <<>>, <<Menu.main_menu>>))
            ELSE Emit([h5 EXCEPT !.ctx[user_id] =
                          Put(@, "last_search",
                              [query |-> query, type |-> search_type, page |-> page])],
                      EffK(Show(via), "ListView", search_type,
                           <<page, e.total, Len(e.results)>>,
                           create_list_keyboard(e.results, search_type, page, e.total, query)))

\* e is what the catalog answers: e.ok is "fetch_api returned a payload",
\* e.results and e.total are data.results and data.total
search_and_display(h, user_id, via, query, search_type, page, e) ==
    LET h1 == update_user_stats(h, user_id, Word.search)
        h2 == [h1 EXCEPT !.ctx[user_id] =
                  Put(@, "last_search", [query |-> query, type |-> search_type, page |-> page])]
        h3 == IF via = "message" THEN Emit(h2, Eff("reply", "Loading", <<>>, <<>>)) ELSE h2
    IN  IF search_type \notin KnownTypes THEN h3
        ELSE
        LET h4 == Request(h3, Req("search", search_type, query, page))
            h5 == IF via = "message" THEN Emit(h4, Eff("delete", "Loading", <<>>, <<>>)) ELSE h4
        IN  IF ~e.ok
            THEN Emit(h5, EffK(Show(via), "NotFound", search_type, <<>>, <<Menu.main_menu>>))
            ELSE IF Len(e.results) = 0
            THEN Emit(h5, EffK(Show(via), "NoResults", search_type, <<>>, <<Menu.main_menu>>))
            ELSE Emit(h5, EffK(Show(via), "ListView", search_type,
                               <<page, e.total, Len(e.results)>>,
                               create_list_keyboard(e.results, search_type, page, e.total, query)))

\* the photo replaces the message of a token turn; a text turn gets a new message
show_detail(h, view, kind, data, kb, has_image, edit_message, via) ==
    IF has_image
    THEN IF edit_message /\ via = "callback"
         THEN Emit(Emit(h, Eff("delete", "Message", <<>>, <<>>)),
                   EffK("send_photo", view, kind, data, kb))
         ELSE Emit(h, EffK("send_photo", view, kind, data, kb))
    ELSE IF edit_message /\ via = "callback"
         THEN Emit(h, EffK("edit", view, kind, data, kb))
         ELSE IF via = "message" THEN Emit(h, EffK("reply", view, kind, data, kb))
         ELSE h

display_song_details(h, song_data, edit_message, via) ==
    show_detail(h, "DetailView", Kind.song, <<>>, create_song_keyboard(song_data.id),
                Len(song_data.image) > 0, edit_message, via)

song_buttons(displayed_songs) ==
    [i \in 1..Len(displayed_songs) |-> U(Kind.song, displayed_songs[i].id)]

display_album_details(h, album_data, page, edit_message, via) ==
    LET song_count == album_data.songCount
        start_idx  == page * 10
        end_idx    == start_idx + 10
        displayed_songs == slice(album_data.songs, start_idx, end_idx)
        kb == song_buttons(displayed_songs)
              \o create_album_playlist_keyboard(album_data.id, Kind.album, page, song_count)
    IN  show_detail(h, "DetailView", Kind.album, <<page, song_count, Len(displayed_songs)>>, kb,
                    Len(album_data.image) > 0, edit_message, via)

display_playlist_details(h, playlist_data, page, edit_message, via) ==
    LET song_count == playlist_data.songCount
        start_idx  == page * 10
        end_idx    == start_idx + 10
        displayed_songs == slice(playlist_data.songs, start_idx, end_idx)
        kb == song_buttons(displayed_songs)
              \o create_album_playlist_keyboard(playlist_data.id, Kind.playlist, page, song_count)
    IN  show_detail(h, "DetailView", Kind.playlist, <<page, song_count, Len(displayed_songs)>>, kb,
                    Len(playlist_data.image) > 0, edit_message, via)

(***************************************************************************)
(* Text turns                                                              *)
(***************************************************************************)
contains(s, p) == \E i \in 1..(Len(s) - Len(p) + 1) : SubSeq(s, i, i + Len(p) - 1) = p

RECURSIVE strip(_)
strip(s) ==
    IF Len(s) > 0 /\ s[1] = " " THEN strip(Tail(s))
    ELSE IF Len(s) > 0 /\ s[Len(s)] = " " THEN strip(SubSeq(s, 1, Len(s) - 1))
    ELSE s

\* len(text.split()): the maximal runs of non-blank characters
word_count(text) ==
    Cardinality({i \in 1..Len(text) : text[i] # " " /\ (i = 1 \/ text[i - 1] = " ")})

\* s up to the first c
before(s, c) == IF find(s, c) = 0 THEN s ELSE SubSeq(s, 1, find(s, c) - 1)

\* s from the first c on, <<>> when there is none
from(s, c) == IF find(s, c) = 0 THEN <<>> ELSE SubSeq(s, find(s, c), Len(s))

\* the position of the first "://", 0 when there is none
scheme_end(url) ==
    IF \E i \in 1..(Len(url) - 2) : SubSeq(url, i, i + 2) = <<":", "/", "/">>
    THEN CHOOSE i \in 1..(Len(url) - 2) :
            /\ SubSeq(url, i, i + 2) = <<":", "/", "/">>
            /\ \A j \in 1..(i - 1) : SubSeq(url, j, j + 2) # <<":", "/", "/">>
    ELSE 0

path_at(url, k) == IF k = 0 THEN url ELSE from(SubSeq(url, k + 3, Len(url)), "/")

\* urlparse(url).path: what follows the host of scheme://host, up to ? or #
url_path(url) == before(before(path_at(url, scheme_end(url)), "?"), "#")

last_segment(path) == LET parts == split(path, "/") IN parts[Len(parts)]

Seg(x) == <<"/">> \o x \o <<"/">>

id_and_type(path) ==
    IF contains(path, Seg(Kind.song)) THEN <<last_segment(path), Kind.song>>
    ELSE IF contains(path, Seg(Kind.album)) THEN <<last_segment(path), Kind.album>>
    ELSE IF contains(path, Seg(<<"f", "e", "a", "t", "u", "r", "e", "d">>))
            \/ contains(path, Seg(Kind.playlist))
    THEN <<last_segment(path), Kind.playlist>>
    ELSE IF contains(path, Seg(Kind.artist)) THEN <<last_segment(path), Kind.artist>>
    ELSE <<<<>>, <<>>>>

\* (item_id, item_type), (<<>>, <<>>) for (None, None)
extract_jiosaavn_id(url) == id_and_type(url_path(url))

show_item(h, item_id, item_type, e) ==
    IF item_type = Kind.artist
    THEN Emit(h, EffK("reply", "ArtistMenu", Kind.artist, <<>>, create_artist_keyboard(item_id)))
    ELSE IF ~e.ok THEN Request(h, Req("by_id", item_type, item_id, 0))
    ELSE IF item_type = Kind.song
    THEN display_song_details(Request(h, Req("by_id", item_type, item_id, 0)), e.data, FALSE,
                              "message")
    ELSE IF item_type = Kind.album
    THEN display_album_details(Request(h, Req("by_id", item_type, item_id, 0)), e.data, 0,
                               FALSE, "message")
    ELSE display_playlist_details(Request(h, Req("by_id", item_type, item_id, 0)), e.data, 0,
                                  FALSE, "message")

\* handle_url that leaves the loading message in place
handle_item_loading_kept(h, item_id, item_type, e) ==
    IF Len(item_id) = 0 \/ Len(item_type) = 0
    THEN Emit(h, Eff("reply", "InvalidUrl", <<>>, <<>>))
    ELSE show_item(Emit(h, Eff("reply", "Loading", <<>>, <<>>)), item_id, item_type, e)

handle_item(h, item_id, item_type, e) ==
    IF Len(item_id) = 0 \/ Len(item_type) = 0
    THEN Emit(h, Eff("reply", "InvalidUrl", <<>>, <<>>))
    ELSE Emit(show_item(Emit(h, Eff("reply", "Loading", <<>>, <<>>)), item_id, item_type, e),
              Eff("delete", "Loading", <<>>, <<>>))

\* e.ok, e.data: the answer of the by-id fetch
handle_url(h, user_id, url, e) ==
    handle_item(h, extract_jiosaavn_id(url)[1], extract_jiosaavn_id(url)[2], e)

SaavnHost == <<"s", "a", "a", "v", "n", ".", "c", "o", "m">>

\* the length test with the boundary on the wrong side: 6 words count as lyrics
route_text_six_excluded(h, user_id, text, e) ==
    IF contains(text, <<"j", "i", "o">> \o SaavnHost) \/ contains(text, SaavnHost)
    THEN handle_url(h, user_id, text, e)
    ELSE IF word_count(text) >= 6
    THEN Emit(h, Eff("reply", "LyricsNotSupported", <<>>, <<>>))
    ELSE search_and_display(h, user_id, "message", text, Kind.song, 0, e)

route_text(h, user_id, text, e) ==
    IF contains(text, <<"j", "i", "o">> \o SaavnHost) \/ contains(text, SaavnHost)
    THEN handle_url(h, user_id, text, e)
    ELSE IF word_count(text) > 6
    THEN Emit(h, Eff("reply", "LyricsNotSupported", <<>>, <<>>))
    ELSE search_and_display(h, user_id, "message", text, Kind.song, 0, e)

handle_text_message(h, user_id, raw, e) == route_text(h, user_id, strip(raw), e)

(***************************************************************************)
(* Retrieval pipeline                                                      *)
(***************************************************************************)
\* l[i], or IndexError
getitem(l, i) ==
    IF index_ok(l, i) THEN [exc |-> "none", v |-> at(l, i)]
    ELSE [exc |-> "IndexError", v |-> [url |-> <<>>]]

\* the selection with its bound test off by one
dl_select_url_inclusive(download_urls, quality_index) ==
    IF quality_index <= Len(download_urls) THEN getitem(download_urls, quality_index)
    ELSE IF Len(download_urls) > 0 THEN getitem(download_urls, 0 - 1)
    ELSE [exc |-> "none", v |-> [url |-> <<>>]]

\* download_song: the variant at the preference index, else the last one,
\* else no url (None)
dl_select_url(download_urls, quality_index) ==
    IF quality_index < Len(download_urls) THEN getitem(download_urls, quality_index)
    ELSE IF Len(download_urls) > 0 THEN getitem(download_urls, 0 - 1)
    ELSE [exc |-> "none", v |-> [url |-> <<>>]]

\* download_all_songs: the same selection, written out again in the loop
dlall_select_url(download_urls, quality_index) ==
    IF quality_index < Len(download_urls) THEN getitem(download_urls, quality_index)
    ELSE IF Len(download_urls) > 0 THEN getitem(download_urls, 0 - 1)
    ELSE [exc |-> "none", v |-> [url |-> <<>>]]

\* a ring that keeps its first 50 entries
record_history_keep_first(history, entry) ==
    LET appended == Append(history, entry) IN
    IF Len(appended) > HistoryCap THEN slice(appended, 0, HistoryCap) ELSE appended

\* user_data["history"].append(entry), then keep the last 50
record_history(history, entry) ==
    LET appended == Append(history, entry) IN
    IF Len(appended) > HistoryCap THEN last_k(appended, HistoryCap) ELSE appended

\* the binary fetch, the thumbnail fetch and send_audio of one song.
\* e.bin, e.thumb: "200", "non200" or "raise"; e.send: "ok" or "raise".
\* Yields the handler state and whether the audio was sent.
fetch_and_send(h, song, download_url, e) ==
    LET h1 == Request(h, Req("binary", <<>>, download_url, 0)) IN
    IF e.bin = "raise" THEN [h |-> Raise(h1, "ClientError"), sent |-> FALSE, status |-> "raise"]
    ELSE IF e.bin # "200" THEN [h |-> h1, sent |-> FALSE, status |-> "non200"]
    ELSE
    LET has_thumb == Len(song.image) > 0
        h2 == IF has_thumb THEN Request(h1, Req("thumbnail", <<>>, at(song.image, 0 - 1).url, 0))
              ELSE h1
    IN  IF has_thumb /\ e.thumb = "raise"
        THEN [h |-> Raise(h2, "ClientError"), sent |-> FALSE, status |-> "raise"]
        ELSE IF e.send = "raise"
        THEN [h |-> Raise(h2, "TelegramError"), sent |-> FALSE, status |-> "raise"]
        ELSE [h |-> Emit(h2, Eff("send_audio", "Audio",
                                 <<IF has_thumb /\ e.thumb = "200" THEN 1 ELSE 0>>, <<>>)),
              sent |-> TRUE, status |-> "200"]

\* e.ok, e.song: the answer of get_song_details
download_song(h, user_id, song_id, e) ==
    LET h0 == get_user_data(h, user_id)
        quality == h0.uds[user_id].quality
        h1 == Emit(Emit(h0, Eff("answer", "Downloading", <<>>, <<>>)),
                   Eff("reply", "Loading", <<>>, <<>>))
        h2 == Request(h1, Req("by_id", Kind.song, song_id, 0))
        body ==
            IF ~e.ok THEN Emit(h2, Eff("edit", "FetchDetailsFailed", <<>>, <<>>))
            ELSE IF quality \notin DOMAIN QUALITY_OPTIONS THEN Raise(h2, "KeyError")
            ELSE
            LET sel == dl_select_url(e.song.downloadUrl, QUALITY_OPTIONS[quality]) IN
            IF sel.exc # "none" THEN Raise(h2, sel.exc)
            ELSE IF Len(sel.v.url) = 0 THEN Emit(h2, Eff("edit", "UrlNotAvailable", <<>>, <<>>))
            ELSE
            LET h3 == Emit(Emit(h2, Eff("edit", "Downloading", <<>>, <<>>)),
                           Eff("chat_action", "UploadAudio", <<>>, <<>>))
                r  == fetch_and_send(h3, e.song, sel.v.url, e)
            IN  IF r.h.exc # "none" THEN r.h
                ELSE IF ~r.sent THEN Emit(r.h, Eff("edit", "DownloadFailed", <<>>, <<>>))
                ELSE
                LET h4 == update_user_stats(r.h, user_id, Word.download)
                    h5 == [h4 EXCEPT !.uds[user_id].downloads = @ + 1,
                                     !.uds[user_id].history =
                                         record_history(@, [name |-> e.song.name,
                                                            artist |-> e.song.artist,
                                                            id |-> song_id])]
                IN  Emit(h5, Eff("delete", "Loading", <<>>, <<>>))
    IN  IF body.exc # "none"
        THEN Emit(Caught(body), Eff("edit", "DownloadFailedRetry", <<>>, <<>>))
        ELSE body

\* download_all_songs up to its loop.  e.ok, e.data: the answer of the album
\* or playlist fetch; e.data.songs is the child list.
download_all_songs(h, user_id, item_id, item_type, e) ==
    LET h1 == Emit(h, Eff("answer", "BatchStarting", <<>>, <<>>))
        h2 == IF item_type = Kind.album
              THEN Request(h1, Req("by_id", Kind.album, item_id, 0))
              ELSE Request(h1, Req("by_id", Kind.playlist, item_id, 0))
    IN  IF ~e.ok THEN Emit(h2, Eff("reply", "FetchSongsFailed", <<>>, <<>>))
        ELSE IF Len(e.data.songs) = 0 THEN Emit(h2, Eff("reply", "NoSongsFound", <<>>, <<>>))
        ELSE
        LET total_songs == Len(e.data.songs)
            h3 == Emit(h2, Eff("reply", "BatchProgress", <<0, total_songs>>, <<>>))
            h4 == get_user_data(h3, user_id)
            quality == h4.uds[user_id].quality
        IN  IF quality \notin DOMAIN QUALITY_OPTIONS
            THEN Emit(Caught(Raise(h4, "KeyError")), Eff("reply", "BatchFailed", <<>>, <<>>))
            ELSE [h4 EXCEPT !.batch =
                     [phase |-> "loop", user |-> user_id, songs |-> e.data.songs, idx |-> 0,
                      quality_index |-> QUALITY_OPTIONS[quality], outcomes |-> <<>>,
                      reported |-> 0]]

\* a loop body without its except clause
item_except_absent(h) == h

\* the except clause of the loop body: the failure is logged and the loop continues
item_except(h) == IF h.exc # "none" THEN Caught(h) ELSE h

\* the except clause of download_all_songs: a failure that leaves the loop ends the run
batch_except(h) ==
    IF h.exc # "none"
    THEN [Emit(Caught(h), Eff("reply", "BatchFailed", <<>>, <<>>)) EXCEPT !.batch.phase = "aborted"]
    ELSE h

\* the variant choice and the fetches of one item
item_fetch(h, song, quality_index, e) ==
    LET sel == dlall_select_url(song.downloadUrl, quality_index) IN
    IF sel.exc # "none" THEN [h |-> Raise(h, sel.exc), sent |-> FALSE, status |-> "raise"]
    ELSE IF Len(sel.v.url) = 0 THEN [h |-> h, sent |-> FALSE, status |-> "nourl"]
    ELSE fetch_and_send(h, song, sel.v.url, e)

item_outcome(r) ==
    IF r.sent THEN "sent" ELSE IF r.status = "nourl" THEN "skippedNoUrl" ELSE "fetchFailed"

\* a loop that gives the run up at the first item it cannot send
item_done_stops_on_failure(r, user_id, idx) ==
    IF r.sent
    THEN batch_except(
             [item_except(Emit(update_user_stats(r.h, user_id, Word.download),
                               Eff("sleep", "InterItemDelay", <<1>>, <<>>)))
                 EXCEPT !.batch.idx = idx, !.batch.outcomes = Append(@, item_outcome(r))])
    ELSE [Emit(item_except(r.h), Eff("reply", "BatchFailed", <<>>, <<>>))
             EXCEPT !.batch.idx = idx, !.batch.outcomes = Append(@, item_outcome(r)),
                    !.batch.phase = "aborted"]

\* item_done that also counts the item in the session record
item_done_counts_session(r, user_id, idx) ==
    batch_except(
        [item_except(IF r.sent
                     THEN Emit([update_user_stats(r.h, user_id, Word.download)
                                   EXCEPT !.uds[user_id].downloads = @ + 1],
                               Eff("sleep", "InterItemDelay", <<1>>, <<>>))
                     ELSE r.h)
            EXCEPT !.batch.idx = idx, !.batch.outcomes = Append(@, item_outcome(r))])

\* the tail of the loop body: after a send the counter is updated and the
\* loop sleeps 1 second before the next item
item_done(r, user_id, idx) ==
    batch_except(
        [item_except(IF r.sent
                     THEN Emit(update_user_stats(r.h, user_id, Word.download),
                               Eff("sleep", "InterItemDelay", <<1>>, <<>>))
                     ELSE r.h)
            EXCEPT !.batch.idx = idx, !.batch.outcomes = Append(@, item_outcome(r))])

\* a loop that walks the child list from its end
download_all_item_last_first(h, e) ==
    LET b    == h.batch
        idx  == b.idx + 1
        h1   == Emit(h, Eff("edit", "BatchProgress", <<idx, Len(b.songs)>>, <<>>))
        need == Len(e.summary.downloadUrl) = 0
    IN  item_done(item_fetch(IF need
                                 THEN Request(h1, Req("by_id", Kind.song,
                                                      b.songs[Len(b.songs) + 1 - idx].id, 0))
                                 ELSE h1,
                             IF need /\ e.byid_ok THEN e.byid ELSE e.summary,
                             b.quality_index, e),
                  b.user, idx)

\* a loop body that reports its progress after the item's fetches
download_all_item_progress_late(h, e) ==
    LET b    == h.batch
        idx  == b.idx + 1
        need == Len(e.summary.downloadUrl) = 0
        r    == item_fetch(IF need
                               THEN Request(h, Req("by_id", Kind.song, b.songs[idx].id, 0))
                               ELSE h,
                           IF need /\ e.byid_ok THEN e.byid ELSE e.summary,
                           b.quality_index, e)
    IN  item_done([r EXCEPT !.h = Emit(@, Eff("edit", "BatchProgress", <<idx, Len(b.songs)>>, <<>>))],
                  b.user, idx)

\* a loop body that fetches every item by id, whatever its summary holds
download_all_item_always_by_id(h, e) ==
    LET b    == h.batch
        idx  == b.idx + 1
        h1   == Emit(h, Eff("edit", "BatchProgress", <<idx, Len(b.songs)>>, <<>>))
        need == Len(e.summary.downloadUrl) = 0
    IN  item_done(item_fetch(Request(h1, Req("by_id", Kind.song, b.songs[idx].id, 0)),
                             IF need /\ e.byid_ok THEN e.byid ELSE e.summary,
                             b.quality_index, e),
                  b.user, idx)

\* one iteration of the loop of download_all_songs.  e.summary is the item of
\* the child list, e.byid_ok / e.byid the answer of the by-id fetch.
download_all_item(h, e) ==
    LET b    == h.batch
        idx  == b.idx + 1
        h1   == Emit(h, Eff("edit", "BatchProgress", <<idx, Len(b.songs)>>, <<>>))
        need == Len(e.summary.downloadUrl) = 0
    IN  item_done(item_fetch(IF need
                                 THEN Request(h1, Req("by_id", Kind.song, b.songs[idx].id, 0))
                                 ELSE h1,
                             IF need /\ e.byid_ok THEN e.byid ELSE e.summary,
                             b.quality_index, e),
                  b.user, idx)

\* what follows the loop
download_all_finish(h) ==
    LET total_songs == Len(h.batch.songs) IN
    [Emit(h, Eff("edit", "BatchComplete", <<total_songs>>, <<>>))
        EXCEPT !.batch.phase = "done", !.batch.reported = total_songs]

(***************************************************************************)
(* callback_query_handler: the decoder of the callback-data grammar        *)
(***************************************************************************)
Took(h, branch) == [h EXCEPT !.disp.branch = branch]

Decoded(h, kind, id, page, query) ==
    [h EXCEPT !.disp.kind = kind, !.disp.id = id, !.disp.page = page, !.disp.query = query]

\* a quality selection that applies to every session's record
on_quality_all_sessions(h, user_id, data) ==
    LET quality_choice == at(split(data, "_"), 1)
        h1 == get_user_data(Decoded(h, quality_choice, <<>>, 0, <<>>), user_id)
        h2 == [h1 EXCEPT !.uds = [v \in DOMAIN h1.uds |->
                                     [h1.uds[v] EXCEPT !.quality = quality_choice]]]
    IN  IF quality_choice \notin DOMAIN QUALITY_OPTIONS THEN Raise(h2, "KeyError")
        ELSE settings_command(Emit(h2, Eff("alert", "QualitySet", <<QUALITY_OPTIONS[quality_choice]>>, <<>>)),
                              user_id, "callback")

on_quality(h, user_id, data) ==
    LET quality_choice == at(split(data, "_"), 1)
        h1 == get_user_data(Decoded(h, quality_choice, <<>>, 0, <<>>), user_id)
        h2 == [h1 EXCEPT !.uds[user_id].quality = quality_choice]
    IN  IF quality_choice \notin DOMAIN QUALITY_OPTIONS THEN Raise(h2, "KeyError")
        ELSE settings_command(Emit(h2, Eff("alert", "QualitySet", <<QUALITY_OPTIONS[quality_choice]>>, <<>>)),
                              user_id, "callback")

\* clear_history that replaces the whole session record by a fresh one
on_clear_history_resets_session(h, user_id) ==
    history_command(
        Emit([h EXCEPT !.uds = Put(@, user_id,
                  [quality |-> Tier.medium, history |-> <<>>, downloads |-> 0, searches |-> 0])],
             Eff("alert", "HistoryCleared", <<>>, <<>>)),
        user_id, "callback")

on_clear_history(h, user_id) ==
    LET h1 == get_user_data(h, user_id)
        h2 == [h1 EXCEPT !.uds[user_id].history = <<>>]
    IN  history_command(Emit(h2, Eff("alert", "HistoryCleared", <<>>, <<>>)), user_id, "callback")

on_search_menu(h, user_id, kind) ==
    [Emit(h, EffK("edit", "SearchPrompt", kind, <<>>, <<Menu.main_menu>>))
        EXCEPT !.ctx[user_id] = Put(@, "search_mode", kind)]

\* song_, album_, playlist_: the by-id fetch, then the detail view
on_open(h, user_id, data, kind, e) ==
    LET item_id == at(split1(data, "_"), 1)
        h1 == Request(Decoded(h, kind, item_id, 0, <<>>), Req("by_id", kind, item_id, 0))
    IN  IF ~e.ok THEN h1
        ELSE IF kind = Kind.song THEN display_song_details(h1, e.data, TRUE, "callback")
        ELSE IF kind = Kind.album THEN display_album_details(h1, e.data, 0, TRUE, "callback")
        ELSE display_playlist_details(h1, e.data, 0, TRUE, "callback")

on_artist(h, user_id, data) ==
    LET artist_id == at(split1(data, "_"), 1) IN
    Emit(Decoded(h, Kind.artist, artist_id, 0, <<>>),
         EffK("edit", "ArtistMenu", Kind.artist, <<>>, create_artist_keyboard(artist_id)))

on_artist_songs(h, user_id, data, e) ==
    LET parts == split(data, "_")
        artist_id == at(parts, 2)
    IN  IF Len(parts) > 3 /\ ~int_ok(at(parts, 3)) THEN Raise(h, "ValueError")
        ELSE
        LET page == IF Len(parts) > 3 THEN int(at(parts, 3)) ELSE 0
            h1 == Request(Decoded(h, Kind.song, artist_id, page, <<>>),
                          Req("artist_songs", Kind.song, artist_id, page))
        IN  IF ~e.ok THEN h1
            ELSE Emit(h1, EffK("edit", "ListView", Kind.song, <<page, e.total, Len(e.results)>>,
                               create_list_keyboard(e.results, Kind.song, page, e.total, artist_id)))

\* the total is read from songs_data, a local this branch never binds
on_artist_albums(h, user_id, data, e) ==
    LET parts == split(data, "_")
        artist_id == at(parts, 2)
    IN  IF Len(parts) > 3 /\ ~int_ok(at(parts, 3)) THEN Raise(h, "ValueError")
        ELSE
        LET page == IF Len(parts) > 3 THEN int(at(parts, 3)) ELSE 0
            h1 == Request(Decoded(h, Kind.album, artist_id, page, <<>>),
                          Req("artist_albums", Kind.album, artist_id, page))
        IN  IF ~e.ok THEN h1 ELSE Raise(h1, "UnboundLocalError")

on_dlall(h, user_id, data, e) ==
    LET parts == split(data, "_") IN
    IF ~index_ok(parts, 2) THEN Raise(h, "IndexError")
    ELSE download_all_songs(Decoded(h, at(parts, 1), at(parts, 2), 0, <<>>), user_id,
                            at(parts, 2), at(parts, 1), e)

on_similar(h, user_id, data, e) ==
    LET song_id == at(split1(data, "_"), 1)
        h1 == Request(Decoded(h, Kind.song, song_id, 0, <<>>),
                      Req("suggestions", Kind.song, song_id, 0))
    IN  IF ~e.ok THEN h1
        ELSE Emit(h1, EffK("edit", "ListView", Kind.song, <<0, Len(e.results), Len(e.results)>>,
                           create_list_keyboard(e.results, Kind.song, 0, Len(e.results), <<>>)))

on_list(h, user_id, data, e) ==
    LET parts == split(data, "_") IN
    IF ~index_ok(parts, 2) THEN Raise(h, "IndexError")
    ELSE IF ~int_ok(at(parts, 2)) THEN Raise(h, "ValueError")
    ELSE
    LET item_type  == at(parts, 1)
        page       == int(at(parts, 2))
        query_text == IF Len(parts) > 3 THEN join(slice(parts, 3, Len(parts)), "_") ELSE <<>>
        h1         == Decoded(h, item_type, <<>>, page, query_text)
    IN  IF Has(h1.ctx[user_id], "last_search") /\ Len(h1.ctx[user_id]["last_search"].query) > 0
        THEN search_and_display(h1, user_id, "callback", h1.ctx[user_id]["last_search"].query,
                                item_type, page, e)
        ELSE h1

on_detail(h, user_id, data, e) ==
    LET parts     == split(data, "_")
        item_type == IF startswith(data, Tag.albumdetail) THEN Kind.album ELSE Kind.playlist
        item_id   == at(parts, 1)
    IN  IF Len(parts) > 2 /\ ~int_ok(at(parts, 2)) THEN Raise(h, "ValueError")
        ELSE
        LET page == IF Len(parts) > 2 THEN int(at(parts, 2)) ELSE 0
            h1 == Request(Decoded(h, item_type, item_id, page, <<>>),
                          Req("by_id", item_type, item_id, 0))
        IN  IF ~e.ok THEN h1
            ELSE IF item_type = Kind.album THEN display_album_details(h1, e.data, page, TRUE, "callback")
            ELSE display_playlist_details(h1, e.data, page, TRUE, "callback")

\* an admin_broadcast branch that sends an announcement to the session
on_admin_broadcast_sends(h, user_id) ==
    [Emit(Emit(h, Eff("alert", "BroadcastPrompt", <<>>, <<>>)),
          Eff("send_message", "Announcement", <<user_id>>, <<>>))
        EXCEPT !.ctx[user_id] = Put(@, "admin_mode", Word.broadcast)]

on_admin_broadcast(h, user_id) ==
    [Emit(h, Eff("alert", "BroadcastPrompt", <<>>, <<>>))
        EXCEPT !.ctx[user_id] = Put(@, "admin_mode", Word.broadcast)]

\* admin_stats served without looking at ADMIN_IDS
on_admin_stats_unchecked(h, user_id) ==
    Emit(h, Eff("edit", "AdminStats", global_totals(h), <<Menu.admin_panel>>))

on_admin_stats(h, user_id) ==
    IF user_id \notin ADMIN_IDS
    THEN Emit(h, Eff("alert", "Unauthorized", <<>>, <<>>))
    ELSE Emit(h, Eff("edit", "AdminStats", global_totals(h), <<Menu.admin_panel>>))

\* back_search that forgets the page of the search context
on_back_search_page_zero(h, user_id, e) ==
    IF Has(h.ctx[user_id], "last_search")
    THEN LET last_search == h.ctx[user_id]["last_search"] IN
         search_and_display(h, user_id, "callback", last_search.query, last_search.type, 0, e)
    ELSE start_command(h, user_id, "callback")

on_back_search(h, user_id, e) ==
    IF Has(h.ctx[user_id], "last_search")
    THEN LET last_search == h.ctx[user_id]["last_search"] IN
         search_and_display(h, user_id, "callback", last_search.query, last_search.type,
                            last_search.page, e)
    ELSE start_command(h, user_id, "callback")

\* the if / elif chain, in the order of the source
Branch(data) ==
    IF data = Menu.main_menu THEN "main_menu"
    ELSE IF data = Menu.help THEN "help"
    ELSE IF data = Menu.settings THEN "settings"
    ELSE IF startswith(data, P(Tag.quality)) THEN "quality"
    ELSE IF data = Menu.my_stats THEN "my_stats"
    ELSE IF data = Menu.history THEN "history"
    ELSE IF data = Menu.clear_history THEN "clear_history"
    ELSE IF data = Menu.search_songs THEN "search_songs"
    ELSE IF data = Menu.search_albums THEN "search_albums"
    ELSE IF data = Menu.search_playlists THEN "search_playlists"
    ELSE IF data = Menu.search_artists THEN "search_artists"
    ELSE IF startswith(data, P(Kind.song)) THEN "song"
    ELSE IF startswith(data, P(Kind.album)) THEN "album"
    ELSE IF startswith(data, P(Kind.playlist)) THEN "playlist"
    ELSE IF startswith(data, P(Kind.artist)) /\ ~startswith(data, Tag.artist_songs)
            /\ ~startswith(data, Tag.artist_albums) THEN "artist"
    ELSE IF startswith(data, P(Tag.artist_songs)) THEN "artist_songs"
    ELSE IF startswith(data, P(Tag.artist_albums)) THEN "artist_albums"
    ELSE IF startswith(data, P(Tag.dl)) THEN "dl"
    ELSE IF startswith(data, P(Tag.dlall)) THEN "dlall"
    ELSE IF startswith(data, P(Tag.sim)) THEN "sim"
    ELSE IF startswith(data, P(Tag.list)) THEN "list"
    ELSE IF startswith(data, P(Tag.albumdetail)) \/ startswith(data, P(Tag.playlistdetail))
    THEN "detail"
    ELSE IF data = Menu.admin_panel THEN "admin_panel"
    ELSE IF data = Menu.admin_broadcast THEN "admin_broadcast"
    ELSE IF data = Menu.admin_stats THEN "admin_stats"
    ELSE IF data = Menu.back_search THEN "back_search"
    ELSE IF data = Menu.noop THEN "noop"
    ELSE "none"

callback_body(h0, user_id, data, e) ==
    LET b == Branch(data)
        h == Took(h0, b)
    IN  CASE b = "main_menu"        -> start_command(h, user_id, "callback")
          [] b = "help"             -> help_command(h, user_id, "callback")
          [] b = "settings"         -> settings_command(h, user_id, "callback")
          [] b = "quality"          -> on_quality(h, user_id, data)
          [] b = "my_stats"         -> stats_command(h, user_id, "callback")
          [] b = "history"          -> history_command(h, user_id, "callback")
          [] b = "clear_history"    -> on_clear_history(h, user_id)
          [] b = "search_songs"     -> on_search_menu(h, user_id, Kind.song)
          [] b = "search_albums"    -> on_search_menu(h, user_id, Kind.album)
          [] b = "search_playlists" -> on_search_menu(h, user_id, Kind.playlist)
          [] b = "search_artists"   -> on_search_menu(h, user_id, Kind.artist)
          [] b = "song"             -> on_open(h, user_id, data, Kind.song, e)
          [] b = "album"            -> on_open(h, user_id, data, Kind.album, e)
          [] b = "playlist"         -> on_open(h, user_id, data, Kind.playlist, e)
          [] b = "artist"           -> on_artist(h, user_id, data)
          [] b = "artist_songs"     -> on_artist_songs(h, user_id, data, e)
          [] b = "artist_albums"    -> on_artist_albums(h, user_id, data, e)
          [] b = "dl"               -> download_song(Decoded(h, Kind.song, at(split1(data, "_"), 1), 0, <<>>),
                                                     user_id, at(split1(data, "_"), 1), e)
          [] b = "dlall"            -> on_dlall(h, user_id, data, e)
          [] b = "sim"              -> on_similar(h, user_id, data, e)
          [] b = "list"             -> on_list(h, user_id, data, e)
          [] b = "detail"           -> on_detail(h, user_id, data, e)
          [] b = "admin_panel"      -> admin_panel(h, user_id)
          [] b = "admin_broadcast"  -> on_admin_broadcast(h, user_id)
          [] b = "admin_stats"      -> on_admin_stats(h, user_id)
          [] b = "back_search"      -> on_back_search(h, user_id, e)
          [] b = "noop"             -> Emit(h, Eff("answer", "", <<>>, <<>>))
          [] OTHER                  -> h

on_exception(r) ==
    IF r.exc # "none" THEN Emit(Caught(r), Eff("alert", "ErrorOccurred", <<>>, <<>>)) ELSE r

callback_query_handler(h, user_id, data, e) ==
    on_exception(callback_body(Emit(h, Eff("answer", "", <<>>, <<>>)), user_id, data, e))

(***************************************************************************)
(* The catalog client                                                      *)
(***************************************************************************)
\* the try block of fetch_api.  resp is what the HTTP exchange does:
\* resp.transport is "ok" or the exception session.get raises, resp.status the
\* status code, resp.body what response.json() finds ("dict", "list", or
\* "not_json", for which it raises), resp.success the envelope's flag
fetch_try(resp) ==
    IF resp.transport # "ok" THEN [exc |-> resp.transport, ok |-> FALSE]
    ELSE IF resp.status = 200
    THEN IF resp.body = "not_json" THEN [exc |-> "ContentTypeError", ok |-> FALSE]
         ELSE IF resp.body = "list" THEN [exc |-> "AttributeError", ok |-> FALSE]
         ELSE [exc |-> "none", ok |-> resp.success]
    ELSE [exc |-> "none", ok |-> FALSE]

\* fetch_api without its except clause
fetch_api_uncaught(h, r, resp) ==
    IF fetch_try(resp).exc # "none"
    THEN Raise(Request(h, r), fetch_try(resp).exc)
    ELSE Emit(Request(h, r),
              Eff("return", IF fetch_try(resp).ok THEN "Payload" ELSE "None", <<>>, <<>>))

\* fetch_api: one GET; what it returns is recorded as a "return" effect.  The
\* e.ok of the handlers above is "fetch_api returned a payload".
fetch_api(h, r, resp) ==
    IF fetch_try(resp).exc # "none"
    THEN Emit(Caught(Raise(Request(h, r), fetch_try(resp).exc)),
              Eff("return", "None", <<>>, <<>>))
    ELSE Emit(Request(h, r),
              Eff("return", IF fetch_try(resp).ok THEN "Payload" ELSE "None", <<>>, <<>>))

(***************************************************************************)
(* Broadcast: broadcast_message and confirm_broadcast.  main registers     *)
(* neither; they are modelled as the handlers they are written to be.      *)
(***************************************************************************)
\* user_stats.keys(): the sessions in the order the dict holds them, here by id
keys(d) ==
    [i \in 1..Cardinality(DOMAIN d) |->
        CHOOSE x \in DOMAIN d : Cardinality({y \in DOMAIN d : y < x}) = i - 1]

\* context.user_data.get(k); None is modelled as the empty string: both are
\* falsy and both differ from "broadcast"
get(d, k) == IF Has(d, k) THEN d[k] ELSE <<>>

broadcast_message(h, user_id, message_text) ==
    IF user_id \notin ADMIN_IDS THEN h
    ELSE IF get(h.ctx[user_id], "admin_mode") # Word.broadcast THEN h
    ELSE IF Len(message_text) = 0
    THEN Emit(h, Eff("reply", "BroadcastTextMissing", <<>>, <<>>))
    ELSE Emit([h EXCEPT !.ctx[user_id] = Put(@, "broadcast_message", message_text)],
              Eff("reply", "ConfirmBroadcast", <<Cardinality(DOMAIN h.stats)>>,
                  <<Menu.broadcast_confirm, Menu.admin_panel>>))

\* a loop that ends at the first recipient it cannot reach
RECURSIVE broadcast_loop_failure_breaks(_, _, _, _, _, _)
broadcast_loop_failure_breaks(h, uids, idx, sends, success_count, failed_count) ==
    IF idx > Len(uids)
    THEN [h |-> h, success_count |-> success_count, failed_count |-> failed_count]
    ELSE IF sends[idx] = "raise"
    THEN [h |-> Caught(Raise(h, "TelegramError")), success_count |-> success_count,
          failed_count |-> failed_count + 1]
    ELSE broadcast_loop_failure_breaks(
             Emit(IF idx % 10 = 0
                  THEN Emit(Emit(h, Eff("send_message", "Announcement", <<uids[idx]>>, <<>>)),
                            Eff("edit", "Broadcasting",
                                <<idx, Len(uids), success_count + 1, failed_count>>, <<>>))
                  ELSE Emit(h, Eff("send_message", "Announcement", <<uids[idx]>>, <<>>)),
                  Eff("sleep", "RateLimit", <<>>, <<>>)),
             uids, idx + 1, sends, success_count + 1, failed_count)

\* the loop of confirm_broadcast from recipient idx on.  sends[i] is what
\* send_message to the i-th recipient does: "ok" or "raise"
RECURSIVE broadcast_loop(_, _, _, _, _, _)
broadcast_loop(h, uids, idx, sends, success_count, failed_count) ==
    IF idx > Len(uids)
    THEN [h |-> h, success_count |-> success_count, failed_count |-> failed_count]
    ELSE IF sends[idx] = "raise"
    THEN broadcast_loop(Caught(Raise(h, "TelegramError")), uids, idx + 1, sends,
                        success_count, failed_count + 1)
    ELSE broadcast_loop(
             Emit(IF idx % 10 = 0
                  THEN Emit(Emit(h, Eff("send_message", "Announcement", <<uids[idx]>>, <<>>)),
                            Eff("edit", "Broadcasting",
                                <<idx, Len(uids), success_count + 1, failed_count>>, <<>>))
                  ELSE Emit(h, Eff("send_message", "Announcement", <<uids[idx]>>, <<>>)),
                  Eff("sleep", "RateLimit", <<>>, <<>>)),
             uids, idx + 1, sends, success_count + 1, failed_count)

broadcast_tally(r, user_id, total) ==
    [Emit(r.h, Eff("edit", "BroadcastComplete", <<total, r.success_count, r.failed_count>>,
                   <<Menu.admin_panel>>))
        EXCEPT !.ctx[user_id] = Put(Put(@, "admin_mode", <<>>), "broadcast_message", <<>>)]

confirm_broadcast(h, user_id, sends) ==
    IF user_id \notin ADMIN_IDS
    THEN Emit(h, Eff("alert", "Unauthorized", <<>>, <<>>))
    ELSE IF Len(get(h.ctx[user_id], "broadcast_message")) = 0
    THEN Emit(Emit(h, Eff("answer", "", <<>>, <<>>)),
              Eff("edit", "NoBroadcastMessage", <<>>, <<>>))
    ELSE broadcast_tally(
             broadcast_loop(Emit(Emit(h, Eff("answer", "", <<>>, <<>>)),
                                 Eff("edit", "Broadcasting",
                                     <<0, Cardinality(DOMAIN h.stats)>>, <<>>)),
                            keys(h.stats), 1, sends, 0, 0),
             user_id, Cardinality(DOMAIN h.stats))

(***************************************************************************)
(* The environment: what the catalog and the binary host can answer        *)
(***************************************************************************)
\* bounds of the model
MaxTurns == 2

MaxCodecTurns == 2

MaxVariantTurns == 2

MaxBatchTurns == 1

MaxVariants == 5

MaxBatch == 5

MaxSeqDownloads == 52
MaxNavTurns == 3
MaxLiveTurns == 1
MaxLiveBatch == 3
MaxRecipients == 11
MaxBroadcastTurns == 3
MaxFetchCalls == 1
MaxPageTurns == 2
MaxTotal == 25
MaxPage == 3
MaxSessionTurns == 3
MaxRegisteredTurns == 3

NoEnv == [ok |-> FALSE]

\* a variant list of n entries; the url of entry i names its index
Urls(n) == [i \in 1..n |-> [url |-> <<"u">> \o str(i - 1)]]

\* the same list with no url in entry k
UrlsBlankAt(n, k) == [i \in 1..n |-> [url |-> IF i = k THEN <<>> ELSE <<"u">> \o str(i - 1)]]

Image == <<[url |-> <<"i", "m", "g">>]>>

MkSong(id, urls, image) ==
    [id |-> id, name |-> <<"N">> \o id, artist |-> Word.Unknown, downloadUrl |-> urls,
     image |-> image]

\* the child list of an album or playlist of k songs
SongList(k) == [i \in 1..k |-> [id |-> <<"t">> \o str(i)]]

MkAlbum(id, k, image) == [id |-> id, songCount |-> k, songs |-> SongList(k), image |-> image]

ResultList(k) == [i \in 1..k |-> <<"r">> \o str(i)]

SearchEnvs ==
    { NoEnv,
      [ok |-> TRUE, results |-> <<>>, total |-> 0],
      [ok |-> TRUE, results |-> ResultList(10), total |-> 23],
      [ok |-> TRUE, results |-> ResultList(3), total |-> 23] }

\* what follows the choice of a url: the binary, the thumbnail, the send
Tails ==
    { [bin |-> "raise", image |-> <<>>, thumb |-> "200", send |-> "ok"],
      [bin |-> "non200", image |-> <<>>, thumb |-> "200", send |-> "ok"],
      [bin |-> "200", image |-> <<>>, thumb |-> "200", send |-> "ok"],
      [bin |-> "200", image |-> <<>>, thumb |-> "200", send |-> "raise"],
      [bin |-> "200", image |-> Image, thumb |-> "200", send |-> "ok"],
      [bin |-> "200", image |-> Image, thumb |-> "non200", send |-> "ok"],
      [bin |-> "200", image |-> Image, thumb |-> "raise", send |-> "ok"],
      [bin |-> "200", image |-> Image, thumb |-> "200", send |-> "raise"] }

OkTail == [bin |-> "200", image |-> <<>>, thumb |-> "200", send |-> "ok"]

\* the variant lists of at most m entries, one of them without its url
UrlLists(m) ==
    {Urls(n) : n \in 0..m} \cup {UrlsBlankAt(n, n) : n \in 1..m} \cup {UrlsBlankAt(m, 3)}

\* download_song: the details fetch fails, or yields a song with a variant list
SongEnvs(id, lists, tails) ==
    { NoEnv }
    \cup { [ok |-> TRUE, song |-> MkSong(id, l, t.image), bin |-> t.bin, thumb |-> t.thumb,
            send |-> t.send] :
           l \in {x \in lists : Len(x) = 0}, t \in {OkTail} }
    \cup { [ok |-> TRUE, song |-> MkSong(id, l, t.image), bin |-> t.bin, thumb |-> t.thumb,
            send |-> t.send] :
           l \in {x \in lists : Len(x) > 0}, t \in tails }

\* an item of a batch run: its summary holds a variant list, or the by-id fetch
\* fails, or the by-id fetch yields one
ItemEnvs(id, lists, tails) ==
    { [summary |-> MkSong(id, l, t.image), byid_ok |-> FALSE, byid |-> MkSong(id, <<>>, <<>>),
       bin |-> t.bin, thumb |-> t.thumb, send |-> t.send] :
      l \in {x \in lists : Len(x) > 0}, t \in tails }
    \cup { [summary |-> MkSong(id, <<>>, <<>>), byid_ok |-> FALSE, byid |-> MkSong(id, <<>>, <<>>),
            bin |-> "200", thumb |-> "200", send |-> "ok"] }
    \cup { [summary |-> MkSong(id, <<>>, <<>>), byid_ok |-> TRUE, byid |-> MkSong(id, l, t.image),
            bin |-> t.bin, thumb |-> t.thumb, send |-> t.send] :
           l \in {x \in lists : Len(x) = 0}, t \in {OkTail} }
    \cup { [summary |-> MkSong(id, <<>>, <<>>), byid_ok |-> TRUE, byid |-> MkSong(id, l, t.image),
            bin |-> t.bin, thumb |-> t.thumb, send |-> t.send] :
           l \in {x \in lists : Len(x) > 0}, t \in tails }

\* the by-id fetch of a detail view
DetailEnvs(kind, id, sizes) ==
    { NoEnv }
    \cup (IF kind = Kind.song
          THEN { [ok |-> TRUE, data |-> MkSong(id, Urls(MaxVariants), img)] : img \in {<<>>, Image} }
          ELSE { [ok |-> TRUE, data |-> MkAlbum(id, k, <<>>)] : k \in sizes })

(***************************************************************************)
(* The inputs: callback data and texts                                     *)
(***************************************************************************)
X7 == <<"x", "7">>

Songs9 == <<"s", "o", "n", "g", "s", "9">>

Albums == <<"a", "l", "b", "u", "m", "s">>

Hi == <<"h", "i">>

Ultra == <<"u", "l", "t", "r", "a">>

\* an action of the callback grammar: its variant and its fields
Act(variant, kind, id, page, query) ==
    [variant |-> variant, kind |-> kind, id |-> id, page |-> page, query |-> query]

\* the fixed menus and the no-op: the branch and the callback data of its button
menu_token(variant) ==
    CASE variant = "main_menu"        -> Menu.main_menu
      [] variant = "help"             -> Menu.help
      [] variant = "settings"         -> Menu.settings
      [] variant = "my_stats"         -> Menu.my_stats
      [] variant = "history"          -> Menu.history
      [] variant = "clear_history"    -> Menu.clear_history
      [] variant = "search_songs"     -> Menu.search_songs
      [] variant = "search_albums"    -> Menu.search_albums
      [] variant = "search_playlists" -> Menu.search_playlists
      [] variant = "search_artists"   -> Menu.search_artists
      [] variant = "admin_panel"      -> Menu.admin_panel
      [] variant = "admin_broadcast"  -> Menu.admin_broadcast
      [] variant = "admin_stats"      -> Menu.admin_stats
      [] variant = "back_search"      -> Menu.back_search
      [] variant = "noop"             -> Menu.noop

FixedMenus ==
    { "main_menu", "help", "settings", "my_stats", "history", "clear_history", "search_songs",
      "search_albums", "search_playlists", "search_artists", "admin_panel", "admin_broadcast",
      "admin_stats", "back_search", "noop" }

quality_button(tier) == IF tier = Tier.high THEN 1 ELSE IF tier = Tier.medium THEN 2 ELSE 3

\* the token a keyboard builder emits for an action
Encode(a) ==
    CASE a.variant = "open"   -> create_list_keyboard(<<a.id>>, a.kind, 0, 1, <<>>)[1]
      [] a.variant = "list"   ->
            create_list_keyboard(<<>>, a.kind, a.page + 1, (a.page + 2) * PageSize, a.query)[1]
      [] a.variant = "detail" ->
            create_album_playlist_keyboard(a.id, a.kind, a.page + 1, (a.page + 2) * PageSize)[2]
      [] a.variant = "dlall"  -> create_album_playlist_keyboard(a.id, a.kind, 0, 0)[1]
      [] a.variant = "dl"     -> create_song_keyboard(a.id)[1]
      [] a.variant = "sim"    -> create_song_keyboard(a.id)[2]
      [] a.variant = "artist_songs"  -> create_artist_keyboard(a.id)[1]
      [] a.variant = "artist_albums" -> create_artist_keyboard(a.id)[2]
      [] a.variant = "quality" -> settings_keyboard[quality_button(a.kind)]
      [] OTHER -> menu_token(a.variant)

\* the branch of callback_query_handler that serves an action variant
BranchOf(a) ==
    IF a.variant # "open" THEN a.variant
    ELSE IF a.kind = Kind.song THEN "song"
    ELSE IF a.kind = Kind.album THEN "album"
    ELSE IF a.kind = Kind.playlist THEN "playlist"
    ELSE "artist"

\* the actions the keyboard builders can encode, over a set of ids
ActionsOver(ids, pages, queries) ==
    { Act("open", k, i, 0, <<>>) : k \in KnownTypes, i \in ids }
    \cup { Act("list", k, <<>>, p, q) : k \in KnownTypes, p \in pages, q \in queries }
    \cup { Act("detail", k, i, p, <<>>) : k \in {Kind.album, Kind.playlist}, i \in ids, p \in pages }
    \cup { Act("dlall", k, i, 0, <<>>) : k \in {Kind.album, Kind.playlist}, i \in ids }
    \cup { Act("dl", Kind.song, i, 0, <<>>) : i \in ids }
    \cup { Act("sim", Kind.song, i, 0, <<>>) : i \in ids }
    \cup { Act("artist_songs", Kind.song, i, 0, <<>>) : i \in ids }
    \cup { Act("artist_albums", Kind.album, i, 0, <<>>) : i \in ids }
    \cup { Act("quality", k, <<>>, 0, <<>>) : k \in {Tier.high, Tier.medium, Tier.low} }
    \cup { Act(m, <<>>, <<>>, 0, <<>>) : m \in FixedMenus }

\* tokens no builder emits: a prefix tag no branch knows
UnknownPrefix == { <<"z", "z", "_", "1">>, <<"z", "z">> }

\* a field too few
WrongArity ==
    { U(Tag.dlall, Kind.album), U(Tag.list, Kind.song), U(Tag.artist_songs, X7), U(Tag.albumdetail, X7) }

\* a page field that is no number
NonNumericPage ==
    { U(U(Tag.artist_songs, X7), <<"p">>),
      U(U(Tag.artist_albums, X7), <<"p">>),
      U(U(Tag.albumdetail, X7), <<"p">>),
      U(U(U(Tag.list, Kind.song), <<"p">>), Hi) }

\* a page field below zero
NegativePage ==
    { U(U(Tag.artist_songs, X7), <<"-", "1">>),
      U(U(Tag.albumdetail, X7), <<"-", "1">>),
      U(U(Tag.playlistdetail, X7), <<"-", "1">>),
      U(U(U(Tag.list, Kind.song), <<"-", "1">>), Hi) }

\* a field too many
ExtraField ==
    { U(U(U(Tag.dlall, Kind.album), X7), X7),
      U(U(U(Tag.albumdetail, X7), <<"1">>), <<"9">>) }

Malformed ==
    UnknownPrefix \cup WrongArity \cup NonNumericPage \cup NegativePage \cup ExtraField
    \cup { U(Tag.quality, Ultra), Menu.broadcast_confirm }

\* what the environment can answer to a token
EnvsFor(data) ==
    LET b == Branch(data) IN
    CASE b \in {"song", "album", "playlist"} ->
            DetailEnvs(split1(data, "_")[1], X7, {0, 3, 25})
      [] b = "detail" -> { NoEnv, [ok |-> TRUE, data |-> MkAlbum(X7, 25, <<>>)] }
      [] b = "dlall" -> { NoEnv } \cup { [ok |-> TRUE, data |-> MkAlbum(X7, k, <<>>)] : k \in 0..2 }
      [] b = "dl" -> SongEnvs(X7, {Urls(0), Urls(3), Urls(MaxVariants)}, {OkTail})
                     \cup SongEnvs(X7, {Urls(MaxVariants)}, Tails)
      [] b \in {"artist_songs", "artist_albums", "list", "back_search"} -> SearchEnvs
      [] b = "sim" -> { NoEnv, [ok |-> TRUE, results |-> ResultList(3), total |-> 3] }
      [] OTHER -> { NoEnv }

Texts ==
    { Hi,
      <<"a", " ", "b", " ", "c", " ", "d", " ", "e", " ", "f">>,
      <<"a", " ", "b", " ", "c", " ", "d", " ", "e", " ", "f", " ", "g">>,
      SaavnHost \o <<"/">> \o Kind.song \o <<"/">> \o X7,
      SaavnHost \o <<"/">> \o Kind.artist \o <<"/">> \o X7,
      SaavnHost \o <<"/">> \o X7 }

TextEnvsOf(kind) == IF kind \in {Kind.song, Kind.album, Kind.playlist} THEN DetailEnvs(kind, X7, {3}) ELSE { NoEnv }

TextEnvsFor(text) ==
    IF contains(text, SaavnHost) THEN TextEnvsOf(extract_jiosaavn_id(text)[2]) ELSE SearchEnvs

(***************************************************************************)
(* Actions                                                                 *)
(***************************************************************************)
Init ==
    /\ user_data_store = EmptyDict
    /\ user_stats = EmptyDict
    /\ user_ctx = [u \in Users |-> EmptyDict]
    /\ batch = IdleBatch
    /\ out = <<>>
    /\ reqs = <<>>
    /\ turn = [user |-> 0, kind |-> "init", data |-> <<>>, env |-> NoEnv, disp |-> NoDispatch,
               caught |-> <<>>, exc |-> "none", order |-> <<>>]
    /\ clock = 0

Commit(h, user_id, kind, data, e) ==
    /\ user_data_store' = h.uds
    /\ user_stats' = h.stats
    /\ user_ctx' = h.ctx
    /\ batch' = h.batch
    /\ out' = h.out
    /\ reqs' = h.reqs
    /\ turn' = [user |-> user_id, kind |-> kind, data |-> data, env |-> e, disp |-> h.disp,
                caught |-> h.caught, exc |-> h.exc, order |-> h.order]

\* the Application handles one update at a time: while download_all_songs
\* runs, no other update is dispatched
DispatcherFree == batch.phase # "loop"

CallbackTurn(user_id, data, e) ==
    /\ DispatcherFree
    /\ Commit(callback_query_handler(Enter, user_id, data, e), user_id, "callback", data, e)

TextTurn(user_id, text, e) ==
    /\ DispatcherFree
    /\ Commit(handle_text_message(Enter, user_id, text, e), user_id, "text", text, e)

CommandTurn(user_id, cmd) ==
    /\ DispatcherFree
    /\ Commit(CASE cmd = "start"    -> start_command(Enter, user_id, "message")
                [] cmd = "help"     -> help_command(Enter, user_id, "message")
                [] cmd = "settings" -> settings_command(Enter, user_id, "message")
                [] cmd = "stats"    -> stats_command(Enter, user_id, "message")
                [] cmd = "history"  -> history_command(Enter, user_id, "message"),
              user_id, "command", <<cmd>>, NoEnv)

BatchItem(e) ==
    /\ batch.phase = "loop"
    /\ batch.idx < Len(batch.songs)
    /\ Commit(download_all_item([Enter EXCEPT !.batch = batch], e), batch.user, "batch_item",
              <<>>, e)
    /\ UNCHANGED clock

BatchFinish ==
    /\ batch.phase = "loop"
    /\ batch.idx = Len(batch.songs)
    /\ Commit(download_all_finish([Enter EXCEPT !.batch = batch]), batch.user, "batch_finish",
              <<>>, NoEnv)
    /\ UNCHANGED clock

Tick(limit) == clock < limit /\ clock' = clock + 1

Commands == {"start", "help", "settings", "stats", "history"}

(***************************************************************************)
(* Specifications                                                          *)
(***************************************************************************)
\* every handler, two sessions, a few tokens of every branch
CoreTokens ==
    {Encode(a) : a \in ActionsOver({X7}, {1}, {Hi})} \cup Malformed

Next ==
    \/ Tick(MaxTurns) /\ \E u \in Users, data \in CoreTokens : \E e \in EnvsFor(data) :
          CallbackTurn(u, data, e)
    \/ Tick(MaxTurns) /\ \E u \in Users, text \in Texts : \E e \in TextEnvsFor(text) :
          TextTurn(u, text, e)
    \/ Tick(MaxTurns) /\ \E u \in Users, cmd \in Commands : CommandTurn(u, cmd)
    \/ \E e \in ItemEnvs(X7, {Urls(MaxVariants)}, {OkTail}) : BatchItem(e)
    \/ BatchFinish

Spec == Init /\ [][Next]_vars

\* the callback-data grammar: one session, every token the builders emit over
\* three ids and two pages, and the tokens they never emit
CodecActions == ActionsOver({X7, Songs9, Albums}, {0, 1}, {Hi})

CodecTokens == {Encode(a) : a \in CodecActions} \cup Malformed

NextCodec ==
    \/ Tick(MaxCodecTurns) /\ \E data \in CodecTokens : \E e \in EnvsFor(data) :
          CallbackTurn(1, data, e)
    \/ Tick(MaxCodecTurns) /\ \E e \in SearchEnvs : TextTurn(1, Hi, e)
    \/ Tick(MaxCodecTurns) /\ CommandTurn(1, "start")
    \/ \E e \in ItemEnvs(X7, {Urls(MaxVariants)}, {OkTail}) : BatchItem(e)
    \/ BatchFinish

SpecCodec == Init /\ [][NextCodec]_vars

\* variant selection: a tier is chosen, then one song or a short album is
\* retrieved, over every variant list of at most MaxVariants entries
VariantTokens ==
    { U(Tag.quality, q) : q \in {Tier.high, Tier.medium, Tier.low} }
    \cup { U(Tag.dl, X7), U(U(Tag.dlall, Kind.album), X7) }

VariantEnvsFor(data) ==
    CASE Branch(data) = "dl" -> SongEnvs(X7, UrlLists(MaxVariants), Tails)
      [] Branch(data) = "dlall" -> { [ok |-> TRUE, data |-> MkAlbum(X7, 1, <<>>)] }
      [] OTHER -> { NoEnv }

NextVariant ==
    \/ Tick(MaxVariantTurns) /\ \E data \in VariantTokens : \E e \in VariantEnvsFor(data) :
          CallbackTurn(1, data, e)
    \/ \E e \in ItemEnvs(X7, UrlLists(MaxVariants), Tails) : BatchItem(e)
    \/ BatchFinish

SpecVariant == Init /\ [][NextVariant]_vars

\* batch runs: one album or playlist of at most MaxBatch items; an item is
\* sent, has no variant, is refused by the binary host, or fails in transit
BatchTokens == { U(U(Tag.dlall, Kind.album), X7), U(U(Tag.dlall, Kind.playlist), X7) }

BatchEnvs == { NoEnv } \cup { [ok |-> TRUE, data |-> MkAlbum(X7, k, <<>>)] : k \in 0..MaxBatch }

BatchItemEnvs ==
    ItemEnvs(X7, {Urls(0), Urls(MaxVariants)},
             { OkTail,
               [bin |-> "non200", image |-> <<>>, thumb |-> "200", send |-> "ok"],
               [bin |-> "200", image |-> Image, thumb |-> "raise", send |-> "ok"] })

NextBatch ==
    \/ Tick(MaxBatchTurns) /\ \E data \in BatchTokens : \E e \in BatchEnvs :
          CallbackTurn(1, data, e)
    \/ \E e \in BatchItemEnvs : BatchItem(e)
    \/ BatchFinish

SpecBatch == Init /\ [][NextBatch]_vars

\* a batch run whose network calls all return: the loop body and the code
\* after the loop are eventually taken
NextBatchLive ==
    \/ Tick(MaxLiveTurns) /\ \E data \in BatchTokens :
          \E e \in { [ok |-> TRUE, data |-> MkAlbum(X7, k, <<>>)] : k \in 0..MaxLiveBatch } :
             CallbackTurn(1, data, e)
    \/ \E e \in BatchItemEnvs : BatchItem(e)
    \/ BatchFinish

SpecBatchLive ==
    /\ Init
    /\ [][NextBatchLive]_vars
    /\ WF_vars(\E e \in BatchItemEnvs : BatchItem(e))
    /\ WF_vars(BatchFinish)

\* the history ring: one session retrieves song after song, the n-th
\* successful retrieval being of song n, and may clear its history
downloads_of(user_id) ==
    IF Has(user_data_store, user_id) THEN user_data_store[user_id].downloads ELSE 0

NextHistory ==
    \/ /\ downloads_of(1) < MaxSeqDownloads
       /\ \E e \in SongEnvs(str(downloads_of(1)), {Urls(MaxVariants)}, {OkTail}) :
             CallbackTurn(1, U(Tag.dl, str(downloads_of(1))), e)
       /\ UNCHANGED clock
    \/ CallbackTurn(1, Menu.clear_history, NoEnv) /\ UNCHANGED clock

SpecHistory == Init /\ [][NextHistory]_vars

\* navigation: one session alternates search prompts, free texts, list
\* pagination tokens (of keyword lists and of an artist's lists) and back
NavTokens ==
    { Menu.main_menu, Menu.search_albums, Menu.search_artists, Menu.back_search,
      list_token(Kind.song, 1, Hi), list_token(Kind.album, 2, Hi),
      list_token(Kind.song, 1, X7), U(U(Tag.artist_songs, X7), str(0)) }

NextNav ==
    \/ Tick(MaxNavTurns) /\ \E data \in NavTokens : \E e \in EnvsFor(data) :
            CallbackTurn(1, data, e)
    \/ Tick(MaxNavTurns) /\ \E text \in Texts : \E e \in TextEnvsFor(text) :
            TextTurn(1, text, e)

SpecNav == Init /\ [][NextNav]_vars

\* broadcast: R sessions have used the bot (each has searched once); the two
\* sessions of Users press admin_broadcast, send the text and confirm
InitBroadcast ==
    /\ \E R \in 0..MaxRecipients :
          user_stats = [u \in 1..R |-> [downloads |-> 0, searches |-> 1, last_active |-> "now"]]
    /\ user_data_store = EmptyDict
    /\ user_ctx = [u \in Users |-> EmptyDict]
    /\ batch = IdleBatch
    /\ out = <<>>
    /\ reqs = <<>>
    /\ turn = [user |-> 0, kind |-> "init", data |-> <<>>, env |-> NoEnv, disp |-> NoDispatch,
               caught |-> <<>>, exc |-> "none", order |-> <<>>]
    /\ clock = 0

\* what send_message does for each recipient, when the run gets to its loop
SendsFor(user_id) ==
    IF user_id \in ADMIN_IDS /\ Len(get(user_ctx[user_id], "broadcast_message")) > 0
    THEN [1..Cardinality(DOMAIN user_stats) -> {"ok", "raise"}]
    ELSE {[i \in 1..Cardinality(DOMAIN user_stats) |-> "ok"]}

NextBroadcast ==
    \/ Tick(MaxBroadcastTurns) /\ \E u \in Users : CallbackTurn(u, Menu.admin_broadcast, NoEnv)
    \/ Tick(MaxBroadcastTurns) /\ \E u \in Users :
          Commit(broadcast_message(Enter, u, Hi), u, "text", Hi, NoEnv)
    \/ Tick(MaxBroadcastTurns) /\ \E u \in Users : \E sends \in SendsFor(u) :
          Commit(confirm_broadcast(Enter, u, sends), u, "callback", Menu.broadcast_confirm,
                 [ok |-> TRUE, sends |-> sends])

SpecBroadcast == InitBroadcast /\ [][NextBroadcast]_vars

\* the catalog client on its own: every endpoint the handlers call, against
\* every kind of HTTP exchange
FetchRequests ==
    { Req("search", k, Hi, p) : k \in KnownTypes, p \in {0, 1} }
    \cup { Req("by_id", k, X7, 0) : k \in {Kind.song, Kind.album, Kind.playlist} }
    \cup { Req("artist_songs", Kind.song, X7, 0), Req("artist_albums", Kind.album, X7, 0),
           Req("suggestions", Kind.song, X7, 0) }

Responses ==
    [transport : {"ok", "TimeoutError", "ClientError"}, status : {200, 404, 500},
     body : {"dict", "list", "not_json"}, success : BOOLEAN]

NextFetch ==
    Tick(MaxFetchCalls) /\ \E r \in FetchRequests, resp \in Responses :
        Commit(fetch_api(Enter, r, resp), 0, "fetch", <<>>, resp)

SpecFetch == Init /\ [][NextFetch]_vars

\* pagination: one session opens every page of albums and playlists of every
\* size and, after a search, every page of search results of every total
NextPages ==
    \/ Tick(MaxPageTurns) /\ TextTurn(1, Hi, [ok |-> TRUE, results |-> ResultList(PageSize),
                                               total |-> MaxTotal])
    \/ Tick(MaxPageTurns) /\ \E kind \in {Kind.album, Kind.playlist}, k \in 0..MaxTotal,
                                page \in 0..MaxPage :
            CallbackTurn(1, detail_token(kind, X7, page),
                         [ok |-> TRUE, data |-> MkAlbum(X7, k, <<>>)])
    \/ Tick(MaxPageTurns) /\ \E total \in 0..MaxTotal, page \in 0..MaxPage,
                                n \in {0, 1, PageSize} :
            CallbackTurn(1, list_token(Kind.song, page, Hi),
                         [ok |-> TRUE, results |-> ResultList(n), total |-> total])

SpecPages == Init /\ [][NextPages]_vars

\* two sessions side by side: each searches, selects a quality, downloads a
\* song, clears its history, goes back, runs a batch
SessionEnvsFor(data) ==
    LET b == Branch(data) IN
    CASE b = "dl" -> SongEnvs(X7, {Urls(MaxVariants)}, {OkTail})
      [] b = "dlall" -> { NoEnv } \cup { [ok |-> TRUE, data |-> MkAlbum(X7, k, <<>>)] : k \in {0, 2} }
      [] b = "back_search" -> { NoEnv, [ok |-> TRUE, results |-> ResultList(3), total |-> 3] }
      [] OTHER -> { NoEnv }

SessionTokens ==
    { U(Tag.dl, X7), U(Tag.quality, Tier.high), Menu.clear_history, Menu.back_search,
      U(U(Tag.dlall, Kind.album), X7) }

SessionItemEnvs ==
    ItemEnvs(X7, {Urls(MaxVariants)},
             { OkTail, [bin |-> "non200", image |-> <<>>, thumb |-> "200", send |-> "ok"] })

NextSessions ==
    \/ Tick(MaxSessionTurns) /\ \E u \in Users, data \in SessionTokens :
            \E e \in SessionEnvsFor(data) : CallbackTurn(u, data, e)
    \/ Tick(MaxSessionTurns) /\ \E u \in Users :
            \E e \in { NoEnv, [ok |-> TRUE, results |-> ResultList(3), total |-> 3] } :
                TextTurn(u, Hi, e)
    \/ \E e \in SessionItemEnvs : BatchItem(e)
    \/ BatchFinish

SpecSessions == Init /\ [][NextSessions]_vars

\* the admin tokens through the handlers main registers: both sessions press
\* the admin buttons and broadcast_confirm, type texts, send commands
RegisteredTokens ==
    { Menu.admin_panel, Menu.admin_broadcast, Menu.admin_stats, Menu.broadcast_confirm }

NextRegistered ==
    \/ Tick(MaxRegisteredTurns) /\ \E u \in Users, data \in RegisteredTokens :
            CallbackTurn(u, data, NoEnv)
    \/ Tick(MaxRegisteredTurns) /\ \E u \in Users : \E e \in SearchEnvs : TextTurn(u, Hi, e)
    \/ Tick(MaxRegisteredTurns) /\ \E u \in Users, cmd \in Commands : CommandTurn(u, cmd)

SpecRegistered == Init /\ [][NextRegistered]_vars

(***************************************************************************)
(* Properties                                                              *)
(***************************************************************************)
HasView(o, view) == \E i \in 1..Len(o) : o[i].view = view

AdminTokens == {Menu.admin_panel, Menu.admin_broadcast, Menu.admin_stats}

\* C4: an admin token (admin_panel, admin_broadcast, admin_stats) from a
\* session that is not in ADMIN_IDS is answered with the Unauthorized
\* rejection and leaves user_stats, user_data_store and the per-session
\* context (admin_mode included) as they were.
C4_UnauthorizedAdminTokenRejected ==
    [][ (turn'.kind = "callback" /\ turn'.user \notin ADMIN_IDS /\ turn'.data \in AdminTokens)
        => /\ HasView(out', "Unauthorized")
           /\ user_stats' = user_stats
           /\ user_data_store' = user_data_store
           /\ user_ctx' = user_ctx ]_vars

\* C5: the global statistics (the AdminPanel and AdminStats views) are
\* never shown in a turn of a session that is not in ADMIN_IDS.
C5_NoStatsLeak ==
    (HasView(out, "AdminPanel") \/ HasView(out, "AdminStats")) => turn.user \in ADMIN_IDS

\* a session outside ADMIN_IDS has asked for admin_stats after some usage was counted
C5_Witness ==
    /\ turn.kind = "callback"
    /\ turn.user \notin ADMIN_IDS
    /\ turn.data = Menu.admin_stats
    /\ HasView(out, "Unauthorized")
    /\ DOMAIN user_stats # {}

Tiers == {Tier.low, Tier.medium, Tier.high}

\* C10: the quality stored for a session is always low, medium or high; a
\* quality_ token naming another value leaves the stored quality unchanged.
C10_StoredQualityIsTier ==
    \A u \in DOMAIN user_data_store : user_data_store[u].quality \in Tiers

\* C7: every token a keyboard builder emits is dispatched to the branch of
\* its own action variant, which recovers the encoded kind, id and page.
C7_TokenRoundTrip ==
    turn.kind = "callback"
    => \A a \in CodecActions :
          turn.data = Encode(a)
          => /\ turn.disp.branch = BranchOf(a)
             /\ turn.disp.kind = a.kind
             /\ turn.disp.id = a.id
             /\ turn.disp.page = a.page

\* C8: a malformed token (a field too few, a page that is no number, an
\* unknown prefix tag) is answered with an error shown to the user, and no
\* exception leaves callback_query_handler.
C8_MalformedTokenShowsError ==
    (turn.kind = "callback" /\ turn.data \in UnknownPrefix \cup WrongArity \cup NonNumericPage)
    => HasView(out, "ErrorOccurred") /\ turn.exc = "none"

\* C9: a pagination token with a negative page, or a token with a field too
\* many, is rejected: no catalog request is issued and no state changes.
C9_BadPageOrArityRejected ==
    [][ (turn'.kind = "callback" /\ turn'.data \in NegativePage \cup ExtraField)
        => /\ reqs' = <<>>
           /\ user_ctx' = user_ctx
           /\ user_data_store' = user_data_store
           /\ user_stats' = user_stats
           /\ batch' = batch ]_vars

\* the index variant selection must use: the preference index, or the last
\* entry when the list is too short (0-based)
ExpectedIndex(quality_index, n) == IF quality_index >= n THEN n - 1 ELSE quality_index

BinaryIds(r) == {r[i].id : i \in {j \in 1..Len(r) : r[j].api = "binary"}}

\* what one selection must have done, given the variant list and the index
SelectionRespected(download_urls, quality_index, skipped) ==
    /\ \A i \in 1..Len(turn.caught) : turn.caught[i] # "IndexError"
    /\ Len(download_urls) = 0 => (skipped /\ BinaryIds(reqs) = {})
    /\ Len(download_urls) > 0 =>
          IF Len(download_urls[ExpectedIndex(quality_index, Len(download_urls)) + 1].url) = 0
          THEN skipped /\ BinaryIds(reqs) = {}
          ELSE ~skipped /\ BinaryIds(reqs) =
                  {download_urls[ExpectedIndex(quality_index, Len(download_urls)) + 1].url}

C1_Single ==
    (turn.kind = "callback" /\ turn.disp.branch = "dl" /\ turn.env.ok
        /\ user_data_store[turn.user].quality \in Tiers)
    => SelectionRespected(turn.env.song.downloadUrl,
                          QUALITY_OPTIONS[user_data_store[turn.user].quality],
                          HasView(out, "UrlNotAvailable"))

C1_Batch ==
    turn.kind = "batch_item"
    => SelectionRespected(IF Len(turn.env.summary.downloadUrl) = 0 /\ turn.env.byid_ok
                          THEN turn.env.byid.downloadUrl ELSE turn.env.summary.downloadUrl,
                          batch.quality_index,
                          batch.outcomes[Len(batch.outcomes)] = "skippedNoUrl")

\* C1: in download_song and in download_all_songs, for every tier and every
\* variant list of n >= 0 entries, the list is never indexed out of bounds;
\* with n = 0 the item is skipped (skippedNoUrl) and no binary fetch is made;
\* with the preference index >= n > 0 the variant n-1 is used; otherwise the
\* variant at the preference index is used.
C1_VariantSelection == C1_Single /\ C1_Batch

\* the tier high (index 4) met a list of 3 entries in a batch run: the item
\* was sent from the last variant
C1_Witness ==
    /\ turn.kind = "batch_item"
    /\ batch.quality_index = 4
    /\ Len(turn.env.summary.downloadUrl) = 3
    /\ batch.outcomes = <<"sent">>
    /\ BinaryIds(reqs) = {turn.env.summary.downloadUrl[3].url}

SentCount(outcomes) == Cardinality({i \in 1..Len(outcomes) : outcomes[i] = "sent"})

\* C2: in a batch run a failed item (no variant, by-id fetch failure, binary
\* fetch refused, an exception while fetching or sending) never ends the run:
\* the items after it are processed and no exception leaves download_all_songs.
C2_ItemFailureIsolated ==
    /\ batch.phase # "aborted"
    /\ turn.kind \in {"batch_item", "batch_finish"} => turn.exc = "none"
    /\ batch.phase = "loop" => (batch.idx = Len(batch.outcomes) /\ batch.idx <= Len(batch.songs))
    /\ batch.phase = "done" => Len(batch.outcomes) = Len(batch.songs)

\* an item failed to be fetched, and the item after it was sent
C2_Witness ==
    /\ turn.kind = "batch_item"
    /\ batch.phase = "loop"
    /\ Len(batch.outcomes) = 3
    /\ batch.outcomes[2] = "fetchFailed"
    /\ batch.outcomes[3] = "sent"

\* C3: the final summary of a batch run reports the number of items that
\* were sent: the count it shows equals the number of send_audio calls of the run.
C3_SummaryReportsSentCount ==
    \A i \in 1..Len(out) :
        out[i].view = "BatchComplete" => out[i].data = <<SentCount(batch.outcomes)>>

history_of(user_id) ==
    IF Has(user_data_store, user_id) THEN user_data_store[user_id].history ELSE <<>>

\* C6: the history ring never holds more than 50 entries; its entries are in
\* download order and the oldest is evicted first: it holds the latest
\* retrievals, and once 51 retrievals have succeeded the first is gone and
\* the newest is its last element.
C6_HistoryRing ==
    \A u \in DOMAIN user_data_store :
        /\ Len(history_of(u)) <= HistoryCap
        /\ \A i \in 1..Len(history_of(u)) :
              history_of(u)[i].id = str(downloads_of(u) - Len(history_of(u)) + i - 1)
        /\ (downloads_of(u) > HistoryCap /\ Len(history_of(u)) = HistoryCap)
           => /\ \A i \in 1..HistoryCap : history_of(u)[i].id # str(0)
              /\ history_of(u)[HistoryCap].id = str(downloads_of(u) - 1)

\* 51 retrievals succeeded with no clear in between
C6_Witness ==
    /\ downloads_of(1) = HistoryCap + 1
    /\ Len(history_of(1)) = HistoryCap
    /\ history_of(1)[1].id = str(1)
    /\ history_of(1)[HistoryCap].id = str(HistoryCap)

(***************************************************************************)
(* Navigation: prompts, free text, back and list pagination                *)
(***************************************************************************)
\* a free text that handle_text_message runs as a search
IsQueryText(text) == ~contains(text, SaavnHost) /\ word_count(text) <= 6

\* C11: once the session has selected a search prompt of kind k, a free-text
\* turn that is neither a catalog URL nor longer than 6 words is run as a
\* search of kind k.
C11_PromptKindUsed ==
    (turn.kind = "text" /\ IsQueryText(strip(turn.data))
        /\ Has(user_ctx[turn.user], "search_mode"))
    => /\ Len(reqs) = 1
       /\ reqs[1].api = "search"
       /\ reqs[1].kind = user_ctx[turn.user]["search_mode"]

\* C12: a text without a catalog host name and with more than 6 words gets
\* the not-supported message, issues no request and leaves the search
\* context and every counter as they were; with at most 6 words it is run
\* as a song search of the stripped text at page 0.
C12_LongTextRejected ==
    [][ (turn'.kind = "text" /\ ~contains(strip(turn'.data), SaavnHost))
        => IF word_count(strip(turn'.data)) > 6
           THEN /\ out' = <<Eff("reply", "LyricsNotSupported", <<>>, <<>>)>>
                /\ reqs' = <<>>
                /\ user_ctx' = user_ctx
                /\ user_stats' = user_stats
                /\ user_data_store' = user_data_store
           ELSE /\ reqs' = <<Req("search", Kind.song, strip(turn'.data), 0)>>
                /\ user_ctx'[turn'.user]["last_search"]
                       = [query |-> strip(turn'.data), type |-> Kind.song, page |-> 0]
      ]_vars

\* a 7-word text was rejected in a session that holds a search context and
\* search counters
C12_Witness ==
    /\ turn.kind = "text"
    /\ word_count(strip(turn.data)) = 7
    /\ HasView(out, "LyricsNotSupported")
    /\ Has(user_ctx[turn.user], "last_search")
    /\ Has(user_stats, turn.user)

\* the search context of a session, <<>> when it holds none
last_search_of(ctx, user_id) ==
    IF Has(ctx[user_id], "last_search") THEN <<ctx[user_id]["last_search"]>> ELSE <<>>

SearchReqs(r) == {i \in 1..Len(r) : r[i].api = "search"}

\* C13: the search context of a session is the query, kind and page of its
\* most recent search or list pagination; back_search re-runs exactly that
\* context, and renders the main menu when the session holds none.
C13_BackRerunsLastSearch ==
    [][ /\ (turn'.kind = "callback" /\ turn'.data = Menu.back_search)
           => IF last_search_of(user_ctx, turn'.user) = <<>>
              THEN /\ reqs' = <<>>
                   /\ out'[Len(out')] = Eff("edit", "MainMenu", <<>>, main_menu_keyboard(turn'.user))
              ELSE reqs' = <<Req("search", user_ctx[turn'.user]["last_search"].type,
                                 user_ctx[turn'.user]["last_search"].query,
                                 user_ctx[turn'.user]["last_search"].page)>>
        /\ turn'.kind \in {"callback", "text"}
           => IF SearchReqs(reqs') = {}
              THEN last_search_of(user_ctx', turn'.user) = last_search_of(user_ctx, turn'.user)
              ELSE /\ Len(reqs') = 1
                   /\ last_search_of(user_ctx', turn'.user)
                          = <<[query |-> reqs'[1].id, type |-> reqs'[1].kind, page |-> reqs'[1].page]>>
      ]_vars

\* back_search has re-run a search context whose page is not the first
C13_Witness ==
    /\ turn.kind = "callback"
    /\ turn.data = Menu.back_search
    /\ Len(reqs) = 1
    /\ reqs[1].api = "search"
    /\ reqs[1].page > 0
    /\ HasView(out, "ListView")

\* the tokens on the keyboards of a turn's effects
Buttons(o) == UNION {{o[i].kb[j] : j \in 1..Len(o[i].kb)} : i \in 1..Len(o)}

\* C14: a list pagination token pressed on the list view that emitted it
\* re-runs the listing of that view (same endpoint, query or parent id, and
\* kind) at the page the token names.
C14_ListTokenRerunsItsListing ==
    [][ (turn'.kind = "callback" /\ turn'.disp.branch = "list"
            /\ turn'.data \in Buttons(out) /\ Len(reqs) = 1)
        => reqs' = <<[reqs[1] EXCEPT !.page = turn'.disp.page]>>
      ]_vars

\* C15: a list pagination turn that the catalog answers with success and
\* zero results ends with a list view of that kind and page (with no items),
\* not with an error view.
C15_PageBeyondLastIsEmptyList ==
    (turn.kind = "callback" /\ turn.disp.branch = "list" /\ SearchReqs(reqs) # {}
        /\ turn.env.ok /\ Len(turn.env.results) = 0)
    => /\ \E i \in 1..Len(out) : /\ out[i].view = "ListView"
                                 /\ out[i].kind = turn.disp.kind
       /\ ~HasView(out, "NoResults")
       /\ ~HasView(out, "NotFound")

(***************************************************************************)
(* Loading messages, failures and retrieval outcomes                       *)
(***************************************************************************)
\* the effects on the loading message of a turn: its creation, its deletion
\* and, in a retrieval turn, every edit
LoadingTouches(o) == {i \in 1..Len(o) : o[i].view = "Loading" \/ o[i].op = "edit"}

\* the texts a loading message ends as
LoadingOutcomes == {"FetchDetailsFailed", "UrlNotAvailable", "DownloadFailed", "DownloadFailedRetry"}

LoadingResolved(o) ==
    \A i \in LoadingTouches(o) :
        (\A j \in LoadingTouches(o) : j <= i)
        => \/ o[i].op = "delete" /\ o[i].view = "Loading"
           \/ o[i].op = "edit" /\ o[i].view \in LoadingOutcomes

\* C16: a turn that has emitted a loading message ends with that message
\* deleted or replaced by a result or error text.
C16_NoDanglingLoading ==
    (\E i \in 1..Len(out) : out[i].op = "reply" /\ out[i].view = "Loading")
    => LoadingResolved(out)

\* a retrieval failed in transit after its loading message was shown
C16_Witness ==
    /\ turn.kind = "callback"
    /\ HasView(out, "Loading")
    /\ turn.caught # <<>>
    /\ out[Len(out)].view = "DownloadFailedRetry"

\* the texts that tell the user a turn has failed or found nothing
FailureViews ==
    LoadingOutcomes \cup {"NotFound", "NoResults", "FetchSongsFailed", "BatchFailed", "ErrorOccurred"}

\* C17: every text or token turn whose catalog fetch fails or returns
\* non-success ends with a user-visible error or not-found message.
C17_FailedFetchIsReported ==
    (turn.kind \in {"callback", "text"} /\ reqs # <<>> /\ ~turn.env.ok)
    => \E i \in 1..Len(out) : /\ out[i].op \in {"reply", "edit", "alert"}
                              /\ out[i].view \in FailureViews

\* C18: in single and batch retrieval a thumbnail fetch that fails in any
\* way (non-200 or transport error) after a successful binary fetch does not
\* fail the item: the audio is sent without thumbnail.
C18_ThumbnailFailureNonFatal ==
    (/\ turn.kind \in {"callback", "batch_item"}
     /\ \E i \in 1..Len(reqs) : reqs[i].api = "thumbnail"
     /\ turn.env.bin = "200"
     /\ turn.env.thumb # "200"
     /\ turn.env.send = "ok")
    => \E i \in 1..Len(out) : out[i].view = "Audio" /\ out[i].data = <<0>>

\* the history and the download counters of a session in given stores; a
\* session without a record has an empty history and counters at 0
HistoryIn(store, user_id) == IF Has(store, user_id) THEN store[user_id].history ELSE <<>>

DownloadsIn(store, user_id) == IF Has(store, user_id) THEN store[user_id].downloads ELSE 0

\* C19: a download_song run that sends the audio makes {name, artist, id} of
\* that song the newest history entry of the session and adds exactly 1 to
\* its download counters (user_data and user_stats); a run with any other
\* outcome leaves the history and the download counters as they were.
C19_DownloadRecordedIffSent ==
    [][ (turn'.kind = "callback" /\ turn'.disp.branch = "dl")
        => IF HasView(out', "Audio")
           THEN /\ HistoryIn(user_data_store', turn'.user)
                      = Append(HistoryIn(user_data_store, turn'.user),
                               [name |-> turn'.env.song.name, artist |-> turn'.env.song.artist,
                                id |-> turn'.disp.id])
                /\ DownloadsIn(user_data_store', turn'.user)
                      = DownloadsIn(user_data_store, turn'.user) + 1
                /\ DownloadsIn(user_stats', turn'.user) = DownloadsIn(user_stats, turn'.user) + 1
           ELSE /\ HistoryIn(user_data_store', turn'.user) = HistoryIn(user_data_store, turn'.user)
                /\ DownloadsIn(user_data_store', turn'.user)
                      = DownloadsIn(user_data_store, turn'.user)
                /\ DownloadsIn(user_stats', turn'.user) = DownloadsIn(user_stats, turn'.user)
      ]_vars

\* a retrieval failed after one had succeeded: the history and the counters
\* still show the one retrieval
C19_Witness ==
    /\ turn.kind = "callback"
    /\ turn.disp.branch = "dl"
    /\ HasView(out, "DownloadFailed")
    /\ Len(HistoryIn(user_data_store, turn.user)) = 1
    /\ DownloadsIn(user_stats, turn.user) = 1

(***************************************************************************)
(* The order of a batch run                                                *)
(***************************************************************************)
ReqsOf(r, api) == {i \in 1..Len(r) : r[i].api = api}

\* C20: a batch run processes its items one at a time in child-list order:
\* an item starts only when every earlier item has its outcome, its progress
\* update, by-id fetch, binary fetch, thumbnail fetch and send are those of
\* the next item of the list in that order, and a sent item is followed by
\* the inter-item delay before the next one starts.
C20_ItemsStrictlySequential ==
    [][ turn'.kind = "batch_item"
        => /\ batch.phase = "loop"
           /\ Len(batch.outcomes) = batch.idx
           /\ batch'.idx = batch.idx + 1
           /\ Len(batch'.outcomes) = batch'.idx
           /\ batch'.songs = batch.songs
           /\ out'[1] = Eff("edit", "BatchProgress", <<batch'.idx, Len(batch.songs)>>, <<>>)
           /\ \A i \in ReqsOf(reqs', "by_id") :
                  i = 1 /\ reqs'[i].id = batch.songs[batch'.idx].id
           /\ Cardinality(ReqsOf(reqs', "binary")) <= 1
           /\ \A i \in ReqsOf(reqs', "binary"), j \in ReqsOf(reqs', "thumbnail") : i < j
           /\ IF batch'.outcomes[batch'.idx] = "sent"
              THEN /\ Len(out') >= 3
                   /\ out'[Len(out') - 1].view = "Audio"
                   /\ out'[Len(out')] = Eff("sleep", "InterItemDelay", <<1>>, <<>>)
              ELSE /\ ~HasView(out', "Audio")
                   /\ ~HasView(out', "InterItemDelay")
      ]_vars

\* the third item of a run was fetched by id and sent after an earlier item
\* had failed
C20_Witness ==
    /\ turn.kind = "batch_item"
    /\ batch.idx = 3
    /\ batch.outcomes[3] = "sent"
    /\ batch.outcomes[2] = "fetchFailed"
    /\ ReqsOf(reqs, "by_id") # {}
    /\ HasView(out, "InterItemDelay")

(***************************************************************************)
(* Progress, by-id fetches and termination of a batch run                  *)
(***************************************************************************)
ViewsOf(o, view) == {i \in 1..Len(o) : o[i].view = view}

\* C21: a batch run over N items reports progress idx/N for idx = 1, 2, ...,
\* N in this order, each report being the first call of item idx (before its
\* by-id and binary fetches), and after the outcome of item N it emits one
\* final summary.
C21_ProgressThenSummary ==
    [][ /\ turn'.kind = "batch_item"
           => /\ batch'.idx = batch.idx + 1
              /\ out'[1] = Eff("edit", "BatchProgress", <<batch'.idx, Len(batch.songs)>>, <<>>)
              /\ turn'.order[1] = "effect"
              /\ Cardinality(ViewsOf(out', "BatchProgress")) = 1
              /\ ViewsOf(out', "BatchComplete") = {}
        /\ turn'.kind = "batch_finish"
           => /\ batch.idx = Len(batch.songs)
              /\ Len(batch.outcomes) = Len(batch.songs)
              /\ turn.kind = "batch_item"
              /\ Cardinality(ViewsOf(out', "BatchComplete")) = 1
              /\ ViewsOf(out', "BatchProgress") = {}
              /\ batch'.phase = "done"
      ]_vars

\* a run of MaxBatch items has emitted its final summary
C21_Witness ==
    /\ turn.kind = "batch_finish"
    /\ Len(batch.songs) = MaxBatch
    /\ batch.idx = MaxBatch
    /\ HasView(out, "BatchComplete")

\* C22: a batch item is fetched by id exactly once when its summary holds no
\* variant list and not at all when it holds one; when that fetch fails or
\* its answer holds no variant either, the item is skipped for want of a url
\* without any binary fetch and the run goes on.
C22_ByIdFetchIffNoVariants ==
    [][ turn'.kind = "batch_item"
        => /\ Cardinality(ReqsOf(reqs', "by_id"))
                  = (IF Len(turn'.env.summary.downloadUrl) = 0 THEN 1 ELSE 0)
           /\ (/\ Len(turn'.env.summary.downloadUrl) = 0
               /\ (~turn'.env.byid_ok \/ Len(turn'.env.byid.downloadUrl) = 0))
              => /\ batch'.outcomes[batch'.idx] = "skippedNoUrl"
                 /\ ReqsOf(reqs', "binary") = {}
                 /\ ~HasView(out', "Audio")
                 /\ batch'.phase = "loop"
      ]_vars

\* the run went on after a skipped item: the by-id fetch of a later item
\* succeeded without a variant list and that item was skipped too
C22_Witness ==
    /\ turn.kind = "batch_item"
    /\ batch.idx >= 2
    /\ \E i \in 1..(batch.idx - 1) : batch.outcomes[i] = "skippedNoUrl"
    /\ turn.env.byid_ok
    /\ Len(turn.env.byid.downloadUrl) = 0
    /\ batch.outcomes[batch.idx] = "skippedNoUrl"

\* C23: a running batch retrieval does not block the other sessions: while
\* the run of one session is between two of its items, a turn of another
\* session can be handled.
C23_OtherSessionsServedDuringBatch ==
    batch.phase = "loop"
    => \E u \in Users \ {batch.user} : ENABLED CommandTurn(u, "help")

TerminalViews == {"BatchComplete", "BatchFailed"}

TerminalCount(o) == Cardinality({i \in 1..Len(o) : o[i].view \in TerminalViews})

\* C24: a batch run that has started cannot be interrupted: until it ends,
\* the only steps are its own items on the same child list, none of which
\* emits a terminal message, and, every network call returning, it visits
\* every item and ends with exactly one terminal message.
C24_BatchRunsToCompletion ==
    /\ [][ batch.phase = "loop"
           => /\ turn'.kind \in {"batch_item", "batch_finish"}
              /\ batch'.songs = batch.songs
              /\ batch'.user = batch.user
              /\ TerminalCount(out') = (IF turn'.kind = "batch_finish" THEN 1 ELSE 0)
              /\ batch'.phase = (IF turn'.kind = "batch_finish" THEN "done" ELSE "loop")
         ]_vars
    /\ (batch.phase = "loop")
          ~> (/\ batch.phase = "done"
              /\ batch.idx = Len(batch.songs)
              /\ Len(batch.outcomes) = Len(batch.songs)
              /\ TerminalCount(out) = 1)

\* a run of three items of which none could be sent has ended
C24_Witness ==
    /\ batch.phase = "done"
    /\ Len(batch.songs) = 3
    /\ SentCount(batch.outcomes) = 0
    /\ TerminalCount(out) = 1

(***************************************************************************)
(* Broadcast                                                               *)
(***************************************************************************)
\* C27: once a privileged session has selected admin_broadcast, its next
\* free text is taken as the broadcast text and answered with the confirm
\* step; it is not run as a catalog search.
C27_BroadcastTextTaken ==
    (/\ turn.kind = "text"
     /\ turn.user \in ADMIN_IDS
     /\ Has(user_ctx[turn.user], "admin_mode")
     /\ user_ctx[turn.user]["admin_mode"] = Word.broadcast)
    => /\ reqs = <<>>
       /\ HasView(out, "ConfirmBroadcast")

\* the recipients of the announcements of a turn, in the order of the sends
RECURSIVE Announced(_)
Announced(o) ==
    IF o = <<>> THEN <<>>
    ELSE (IF Head(o).view = "Announcement" THEN <<Head(o).data[1]>> ELSE <<>>) \o Announced(Tail(o))

\* the recipients sends reaches, in the order of the loop
RECURSIVE Reached(_, _, _)
Reached(uids, sends, i) ==
    IF i > Len(uids) THEN <<>>
    ELSE (IF sends[i] = "ok" THEN <<uids[i]>> ELSE <<>>) \o Reached(uids, sends, i + 1)

C26_ProgressEveryTenth ==
    (/\ turn.kind = "callback"
     /\ turn.data = Menu.broadcast_confirm
     /\ HasView(out, "BroadcastComplete")
     /\ Cardinality(DOMAIN user_stats) >= 10)
    => \E i \in 1..Len(out) : out[i].view = "Broadcasting" /\ out[i].data[1] = 10

(***************************************************************************)
(* The catalog client                                                      *)
(***************************************************************************)
\* C28: a fetch_api call issues exactly one request, never raises to its
\* caller, and returns the payload exactly when the exchange succeeded with
\* status 200 and an envelope whose success flag is set; for a non-200
\* status, success false, a timeout or a transport error it returns None.
C28_FetchReturnsPayloadOrNone ==
    turn.kind = "fetch"
    => /\ Len(reqs) = 1
       /\ turn.exc = "none"
       /\ Len(out) = 1
       /\ out[1].op = "return"
       /\ out[1].view = (IF /\ turn.env.transport = "ok"
                            /\ turn.env.status = 200
                            /\ turn.env.body = "dict"
                            /\ turn.env.success
                         THEN "Payload" ELSE "None")

\* a request timed out and the call returned None
C28_Witness ==
    /\ turn.kind = "fetch"
    /\ turn.env.transport = "TimeoutError"
    /\ turn.caught = <<"TimeoutError">>
    /\ out[1].view = "None"
    /\ Len(reqs) = 1

(***************************************************************************)
(* The navigation graph                                                    *)
(***************************************************************************)
\* the view the chat shows after the step
Shown(o) == IF o = <<>> THEN "" ELSE o[Len(o)].view

ShowsKind(o, view, kind) == \E i \in 1..Len(o) : o[i].view = view /\ o[i].kind = kind

\* the views that carry a keyboard, other than the main menu itself
NavViews ==
    {"Help", "Settings", "Stats", "History", "SearchPrompt", "ListView", "NotFound",
     "NoResults", "DetailView", "ArtistMenu", "AdminPanel"}

\* what a session's next turn can put on the chat: by pressing a button of
\* the message on screen, by typing a text (a query, a long text, a catalog
\* URL of every kind), by sending /start
Press(u) ==
    UNION { { callback_query_handler(Enter, u, data, e).out : e \in EnvsFor(data) } :
            data \in Buttons(out) }

NavTexts ==
    Texts \cup { SaavnHost \o <<"/">> \o k \o <<"/">> \o X7 : k \in {Kind.album, Kind.playlist} }

Type(u) ==
    UNION { { handle_text_message(Enter, u, text, e).out : e \in TextEnvsFor(text) } :
            text \in NavTexts }

\* the tier the session stores is one the settings keyboard offers (a
\* quality_ token no keyboard emits can store another one, after which
\* settings_command and stats_command raise)
StoredTierKnown(u) ==
    Has(user_data_store, u) => user_data_store[u].quality \in DOMAIN QUALITY_OPTIONS

CeilPages(n) == CHOOSE q \in 0..n : q * PageSize >= n /\ \A r \in 0..(q - 1) : r * PageSize < n

Min(a, b) == IF a < b THEN a ELSE b

\* the number of indices in [lo, hi)
Width(lo, hi) == IF hi > lo THEN hi - lo ELSE 0

\* the keyboard has a Next button exactly when the page is not the last of
\* total_pages pages, and a page indicator exactly when there are several
NavMatches(kb, next, page, total_pages) ==
    /\ (\E j \in 1..Len(kb) : kb[j] = next) <=> page < total_pages - 1
    /\ (\E j \in 1..Len(kb) : kb[j] = Menu.noop) <=> total_pages > 1

\* C30: with page size 10 the number of pages is ceil(totalCount / 10), for
\* lists and for detail views, and detail page p shows exactly the children
\* with indices [10p, min(10p + 10, count)), in order, without raising, also
\* for a page past the end.
C30_PaginationArithmetic ==
    (turn.kind = "callback" /\ turn.env.ok /\ turn.disp.branch \in {"detail", "list"})
    => /\ turn.exc = "none"
       /\ turn.caught = <<>>
       /\ turn.disp.branch = "detail"
          => LET songs == turn.env.data.songs
                 count == Len(songs)
                 page  == turn.disp.page
                 lo    == PageSize * page
                 hi    == Min(PageSize * page + PageSize, count)
                 v     == out[Len(out)]
             IN  /\ v.view = "DetailView"
                 /\ v.data = <<page, count, Width(lo, hi)>>
                 /\ \A i \in lo..(hi - 1) : v.kb[i - lo + 1] = U(Kind.song, songs[i + 1].id)
                 /\ v.kb[Width(lo, hi) + 1] = U(U(Tag.dlall, v.kind), turn.disp.id)
                 /\ NavMatches(v.kb, detail_token(v.kind, turn.disp.id, page + 1), page,
                               CeilPages(count))
       /\ (turn.disp.branch = "list" /\ HasView(out, "ListView"))
          => NavMatches(out[Len(out)].kb,
                        list_token(turn.disp.kind, turn.disp.page + 1, turn.disp.query),
                        turn.disp.page, CeilPages(turn.env.total))

\* page 2 of an album of 25 songs: five songs, no Next button
C30_Witness ==
    /\ turn.kind = "callback"
    /\ turn.disp.branch = "detail"
    /\ turn.env.ok
    /\ Len(turn.env.data.songs) = 25
    /\ turn.disp.page = 2
    /\ out[Len(out)].data = <<2, 25, 5>>
    /\ CeilPages(25) = 3

\* the paginated views of a step: lists, album and playlist detail views
PagedViews(o) ==
    {i \in 1..Len(o) : \/ o[i].view = "ListView"
                       \/ o[i].view = "DetailView" /\ o[i].kind \in {Kind.album, Kind.playlist}}

Max(a, b) == IF a > b THEN a ELSE b

\* C31: every rendered list and every album or playlist detail view shows a
\* page with 0 <= page < max(1, totalPages), totalPages being computed from
\* the total of the same rendering.
C31_PageWithinRange ==
    \A i \in PagedViews(out) :
        /\ 0 <= out[i].data[1]
        /\ out[i].data[1] < Max(1, CeilPages(out[i].data[2]))

(***************************************************************************)
(* Sessions                                                                *)
(***************************************************************************)
\* the record get_user_data creates
FreshSession == [quality |-> Tier.medium, history |-> <<>>, downloads |-> 0, searches |-> 0]

\* a session's record, as get_user_data would return it
SessionOf(uds, u) == IF Has(uds, u) THEN uds[u] ELSE FreshSession

\* C32: clear_history empties the history of the session and changes nothing
\* else: its quality and counters, its last_search, the usage counters and
\* every other session's record are what they were.
C32_ClearHistoryFrame ==
    [][ (turn'.kind = "callback" /\ turn'.data = Menu.clear_history)
        => /\ user_data_store'[turn'.user] =
                  [SessionOf(user_data_store, turn'.user) EXCEPT !.history = <<>>]
           /\ \A v \in Users \ {turn'.user} :
                 /\ Has(user_data_store', v) = Has(user_data_store, v)
                 /\ SessionOf(user_data_store', v) = SessionOf(user_data_store, v)
           /\ user_stats' = user_stats
           /\ user_ctx' = user_ctx ]_vars

\* a session that selected a quality and downloaded a song has cleared its
\* history
C32_Witness ==
    /\ turn.kind = "callback"
    /\ turn.data = Menu.clear_history
    /\ user_data_store[turn.user].history = <<>>
    /\ user_data_store[turn.user].downloads = 1
    /\ user_data_store[turn.user].quality = Tier.high

(***************************************************************************)
(* Artist lists                                                            *)
(***************************************************************************)
\* C33: an artist_albums token whose fetch succeeds renders the list of the
\* artist's albums at the requested page, with the total of the response.
C33_ArtistAlbumsListed ==
    (turn.kind = "callback" /\ turn.disp.branch = "artist_albums" /\ turn.env.ok)
    => /\ out[Len(out)].view = "ListView"
       /\ out[Len(out)].kind = Kind.album
       /\ out[Len(out)].data = <<turn.disp.page, turn.env.total, Len(turn.env.results)>>

(***************************************************************************)
(* Counters                                                                *)
(***************************************************************************)
\* a step of a batch run: its start, an item, its end
BatchStep(t) ==
    \/ t.kind \in {"batch_item", "batch_finish"}
    \/ t.kind = "callback" /\ t.disp.branch = "dlall"

SearchesIn(store, user_id) == IF Has(store, user_id) THEN store[user_id].searches ELSE 0

\* C34: a batch run leaves every session's history and user_data downloads
\* (and quality) as they were; each item it sends adds exactly 1 to
\* user_stats[session].downloads, and it changes no other usage counter.
C34_BatchCountsOnlyUsage ==
    [][ BatchStep(turn')
        => /\ \A v \in Users :
                 SessionOf(user_data_store', v) = SessionOf(user_data_store, v)
           /\ DownloadsIn(user_stats', turn'.user)
                 = DownloadsIn(user_stats, turn'.user) + Cardinality(ViewsOf(out', "Audio"))
           /\ SearchesIn(user_stats', turn'.user) = SearchesIn(user_stats, turn'.user)
           /\ \A v \in Users \ {turn'.user} :
                 /\ Has(user_stats', v) = Has(user_stats, v)
                 /\ Has(user_stats, v) => user_stats'[v] = user_stats[v]
      ]_vars

\* a session with one single download in its history has been sent a batch
\* item
C34_Witness ==
    /\ turn.kind = "batch_item"
    /\ HasView(out, "Audio")
    /\ Len(HistoryIn(user_data_store, turn.user)) = 1
    /\ DownloadsIn(user_data_store, turn.user) = 1
    /\ DownloadsIn(user_stats, turn.user) = 2

\* the audios a step sent to session u
AudiosTo(t, o, u) == IF t.user = u THEN Cardinality(ViewsOf(o, "Audio")) ELSE 0

\* C35: for every session, user_stats[session].downloads is the number of
\* audios sent to it so far, by single downloads and by batch runs (it starts
\* at 0 and every step adds the audios the step sent to the session), and it
\* is never smaller than user_data_store[session].downloads.
C35_UsageCountsEveryAudio ==
    /\ [](\A u \in Users : DownloadsIn(user_stats, u) >= DownloadsIn(user_data_store, u))
    /\ [][ \A u \in Users :
              DownloadsIn(user_stats', u) = DownloadsIn(user_stats, u) + AudiosTo(turn', out', u)
         ]_vars

\* one single download and a batch of two sent songs
C35_Witness ==
    /\ turn.kind = "batch_finish"
    /\ DownloadsIn(user_stats, turn.user) = 3
    /\ DownloadsIn(user_data_store, turn.user) = 1
    /\ SentCount(batch.outcomes) = 2

(***************************************************************************)
(* The search context                                                      *)
(***************************************************************************)
\* the catalog requests a Back press of session u would issue now
BackReqs(u) == callback_query_handler(Enter, u, Menu.back_search, NoEnv).reqs

\* C36: every search (from a text, a list token or Back) leaves its query,
\* kind and page as the session's last_search, whether the fetch returned
\* results, nothing, or failed; a Back pressed next re-runs that search.
C36_ContextRecordedWhateverOutcome ==
    [][ \A u \in Users :
          (turn'.kind \in {"callback", "text"} /\ turn'.user = u /\ SearchReqs(reqs') # {})
          => /\ Len(reqs') = 1
             /\ last_search_of(user_ctx', u)
                   = <<[query |-> reqs'[1].id, type |-> reqs'[1].kind, page |-> reqs'[1].page]>>
             /\ BackReqs(u)' = reqs'
      ]_vars

\* Back has re-run a search, which failed again: it is still the context
C36_Witness ==
    /\ turn.kind = "callback"
    /\ turn.data = Menu.back_search
    /\ ~turn.env.ok
    /\ HasView(out, "NotFound")
    /\ last_search_of(user_ctx, turn.user) = <<[query |-> Hi, type |-> Kind.song, page |-> 0]>>
    /\ reqs = <<Req("search", Kind.song, Hi, 0)>>

(***************************************************************************)
(* The registered handlers and the broadcast                               *)
(***************************************************************************)
BroadcastViews ==
    {"ConfirmBroadcast", "BroadcastTextMissing", "Broadcasting", "Announcement",
     "BroadcastComplete", "NoBroadcastMessage"}

\* C37: no turn delivered through the registered handlers starts a
\* broadcast: no step sends a message to another chat or shows a view of the
\* broadcast handlers, no session ever holds a broadcast text, and a
\* broadcast_confirm token matches no branch (the query is answered, nothing
\* else happens).
C37_NoBroadcastThroughRegisteredHandlers ==
    /\ \A i \in 1..Len(out) : out[i].op # "send_message" /\ out[i].view \notin BroadcastViews
    /\ \A u \in Users : ~Has(user_ctx[u], "broadcast_message")
    /\ (turn.kind = "callback" /\ turn.data = Menu.broadcast_confirm)
       => /\ turn.disp.branch = "none"
          /\ out = <<Eff("answer", "", <<>>, <<>>)>>

\* an admin pressed admin_broadcast, sent a text and pressed
\* broadcast_confirm
C37_Witness ==
    /\ turn.kind = "callback"
    /\ turn.data = Menu.broadcast_confirm
    /\ turn.user \in ADMIN_IDS
    /\ Has(user_ctx[turn.user], "admin_mode")
    /\ Has(user_ctx[turn.user], "last_search")
    /\ Has(user_stats, turn.user)

(***************************************************************************)
(* Session isolation                                                       *)
(***************************************************************************)
\* everything the stores hold about session v
Footprint(uds, stats, ctx, v) ==
    << Has(uds, v), SessionOf(uds, v), Has(stats, v),
       IF Has(stats, v) THEN stats[v] ELSE <<>>, ctx[v] >>

\* C38: a step of one session (a search, a quality selection, clear_history,
\* a single download, a step of a batch run) changes nothing that is stored
\* about another session: its record (quality, history, counters), its
\* last_search and context, its usage counters.
C38_SessionIsolation ==
    [][ \A v \in Users :
           v # turn'.user
           => Footprint(user_data_store', user_stats', user_ctx', v)
                 = Footprint(user_data_store, user_stats, user_ctx, v)
      ]_vars

\* session 1 has downloaded a song after session 2 selected a quality and
\* searched
C38_Witness ==
    /\ turn.user = 1
    /\ turn.kind = "callback"
    /\ turn.disp.branch = "dl"
    /\ HasView(out, "Audio")
    /\ Has(user_data_store, 2)
    /\ user_data_store[2].quality = Tier.high
    /\ Has(user_ctx[2], "last_search")
    /\ user_data_store[1].quality = Tier.medium

(***************************************************************************)
(* Pagination tokens                                                       *)
(***************************************************************************)
\* the pagination buttons of a keyboard: list and detail tokens, and the page
\* indicator
PageButtons(kb) ==
    {kb[j] : j \in {k \in 1..Len(kb) : Branch(kb[k]) \in {"list", "detail", "noop"}}}

\* the token of view v of session u for page p
PageToken(v, u, p) ==
    IF v.view = "ListView"
    THEN list_token(v.kind, p, user_ctx[u]["last_search"].query)
    ELSE detail_token(v.kind, X7, p)

\* C39: on a view whose page is within 0..totalPages - 1 every pagination
\* token targets a page within 0..totalPages - 1: the only such tokens are
\* Prev (page - 1), emitted only when page > 0, and Next (page + 1), emitted
\* only when page < totalPages - 1; with a single page there is none.
C39_PageTokensWithinRange ==
    turn.kind \in {"callback", "text"}
    => \A i \in PagedViews(out) :
          LET v     == out[i]
              page  == v.data[1]
              pages == CeilPages(v.data[2])
          IN  (0 <= page /\ page < pages)
              => /\ \A t \in PageButtons(v.kb) \ {Menu.noop} :
                       \/ page > 0 /\ t = PageToken(v, turn.user, page - 1)
                       \/ page < pages - 1 /\ t = PageToken(v, turn.user, page + 1)
                 /\ pages = 1 => PageButtons(v.kb) = {}

\* the last page of a list of 25: a Prev button and no Next button
C39_Witness ==
    /\ turn.kind = "callback"
    /\ turn.disp.branch = "list"
    /\ HasView(out, "ListView")
    /\ out[Len(out)].data[1] = 2
    /\ out[Len(out)].data[2] = 25
    /\ PageButtons(out[Len(out)].kb) = {Menu.noop, list_token(Kind.song, 1, Hi)}

====
